---- MODULE Spec2Model ----
(***************************************************************************)
(* Contact / notes manager (contacts.py, notes.py, core.py).               *)
(*                                                                         *)
(* Strings are sequences of characters (one-character strings).  Python    *)
(* None is the empty sequence and a present optional value v is <<v>>.     *)
(* A Python dict is a sequence of [key, val] entries in insertion order.   *)
(* Note objects live on a heap (Python object identity): the NoteBook      *)
(* maps ids to references.  Records are held by value: the AddressBook     *)
(* operations modelled here receive newly constructed Records only.        *)
(***************************************************************************)
EXTENDS Integers, Sequences, FiniteSets, TLC

VARIABLES
    book,       \* AddressBook.data: dict name -> Record
    notebook,   \* NoteBook.data: dict id -> reference of a Note
    heap,       \* the Note objects: reference -> [id, body, tags]
    id_iter,    \* NoteBook.id_iter: the next value itertools.count yields
    last_id,    \* NoteBook.last_id
    disk,       \* the persisted store: None, or <<[meta, book, notebook, heap]>>
    config,     \* the encryption key in data["config"] and in the config file,
                \* and how the data file was written
    call,       \* the last operation called and its arguments
    ret,        \* what that call returned, or the exception it raised
    hist        \* history of the issued ids (observation only, never read by the program)

progVars == <<book, notebook, heap, id_iter, last_id, disk, config>>
vars == <<book, notebook, heap, id_iter, last_id, disk, config, call, ret, hist>>

----------------------------------------------------------------------------
(* Bounds of the model *)

\* add_note is not taken once the counter has passed MaxId
MaxId == 4

\* no phone is added to a Record that holds MaxPhones phones
MaxPhones == 3

\* no tag is added to a Note that holds MaxTags tags
MaxTags == 3

----------------------------------------------------------------------------
(* Python values *)

None == <<>>
Some(v) == <<v>>

Rep(c, n) == [i \in 1..n |-> c]

\* dict: `k in d`
dict_has(d, k) == \E i \in 1..Len(d) : d[i].key = k

dict_index(d, k) == CHOOSE i \in 1..Len(d) : d[i].key = k

\* dict: d.get(k)
dict_get(d, k) == IF dict_has(d, k) THEN Some(d[dict_index(d, k)].val) ELSE None

\* dict: d[k] = v keeps the position of an existing key, appends a new one
dict_set(d, k, v) ==
    IF dict_has(d, k)
    THEN [d EXCEPT ![dict_index(d, k)].val = v]
    ELSE Append(d, [key |-> k, val |-> v])

\* dict: del d[k], for a key that is present
dict_del(d, k) ==
    LET i == dict_index(d, k)
    IN SubSeq(d, 1, i - 1) \o SubSeq(d, i + 1, Len(d))

dict_keys(d) == {d[i].key : i \in 1..Len(d)}

dict_vals(d) == {d[i].val : i \in 1..Len(d)}

----------------------------------------------------------------------------
(* notes.py: Body, Note, NoteBook *)

BODY_MAX_LEN == 300

\* Body.set_value: raises InvalidBodyFormatError unless this holds
Body_valid(value) == Len(value) <= BODY_MAX_LEN

\* Note.__init__(body) for a valid body and no tags
Note_init(body) == [id |-> None, body |-> body, tags |-> <<>>]

TAG_MIN_LEN == 3

TAG_MAX_LEN == 30

Whitespace == {" ", "\t", "\n"}

\* the characters TAG_PATTERN allows
TagChars ==
    {"a", "b", "c", "d", "e", "f", "g", "h", "i", "j", "k", "l", "m",
     "n", "o", "p", "q", "r", "s", "t", "u", "v", "w", "x", "y", "z",
     "A", "B", "C", "D", "E", "F", "G", "H", "I", "J", "K", "L", "M",
     "N", "O", "P", "Q", "R", "S", "T", "U", "V", "W", "X", "Y", "Z",
     "0", "1", "2", "3", "4", "5", "6", "7", "8", "9",
     " ", "@", "#", "$", "%", "&", ".", "_", "+", "-"}

\* str.lstrip()
RECURSIVE str_lstrip(_)
str_lstrip(value) ==
    IF value # <<>> /\ Head(value) \in Whitespace THEN str_lstrip(Tail(value)) ELSE value

\* str.rstrip()
RECURSIVE str_rstrip(_)
str_rstrip(value) ==
    IF value # <<>> /\ value[Len(value)] \in Whitespace
    THEN str_rstrip(SubSeq(value, 1, Len(value) - 1))
    ELSE value

\* str.strip()
str_strip(value) == str_rstrip(str_lstrip(value))

\* Tag.set_value, after value = value.strip(): raises InvalidTagFormatError
\* unless this holds
Tag_valid(stripped) ==
    ~(~(TAG_MIN_LEN <= Len(stripped) /\ Len(stripped) <= TAG_MAX_LEN)
      \/ ~(\A i \in 1..Len(stripped) : stripped[i] \in TagChars))

\* Tag(value) for a value that is valid once stripped
Tag_init(value) == [cls |-> "Tag", value |-> str_strip(value)]

\* Tag.__eq__(other) for a str: self.value == other
Tag_eq(tag, other) == tag.value = other

\* `value in self.tags`, self.tags.index(value)
tags_contains(tags, value) == \E i \in 1..Len(tags) : Tag_eq(tags[i], value)

tags_index(tags, value) ==
    CHOOSE i \in 1..Len(tags) :
        Tag_eq(tags[i], value) /\ \A j \in 1..(i - 1) : ~Tag_eq(tags[j], value)

\* Note.add_tag(value)
Note_add_tag(tags, value) ==
    IF tags_contains(tags, value)
    THEN [tags |-> tags, ret |-> "False"]
    ELSE IF ~Tag_valid(str_strip(value))
         THEN [tags |-> tags, ret |-> "InvalidTagFormatError"]
         ELSE [tags |-> Append(tags, Tag_init(value)), ret |-> "True"]

\* Note.remove_tag(value): self.tags.remove(value)
Note_remove_tag(tags, value) ==
    IF tags_contains(tags, value)
    THEN LET i == tags_index(tags, value)
         IN [tags |-> SubSeq(tags, 1, i - 1) \o SubSeq(tags, i + 1, Len(tags)),
             ret |-> "None"]
    ELSE [tags |-> tags, ret |-> "ValueError"]

\* Note.find_tag(value): the position of the Tag found, or None
Note_find_tag(tags, value) ==
    IF tags_contains(tags, value) THEN Some(tags_index(tags, value)) ELSE None

\* Note.replace_tag(old_value, new_value): Tag(new_value) is evaluated first,
\* then self.tags.index(old_value), then the element is assigned
Note_replace_tag(tags, old_value, new_value) ==
    IF ~Tag_valid(str_strip(new_value))
    THEN [tags |-> tags, ret |-> "InvalidTagFormatError"]
    ELSE IF ~tags_contains(tags, old_value)
         THEN [tags |-> tags, ret |-> "ValueError"]
         ELSE [tags |-> [tags EXCEPT ![tags_index(tags, old_value)] = Tag_init(new_value)],
               ret |-> "None"]

\* NoteBook.reset_id(value)
NoteBook_reset_id(value) == [id_iter |-> value, last_id |-> value]

\* a plausible slip: the id is taken from the number of notes held
NoteBook_add_note_len(data, hp, it, ref) ==
    LET id == Len(data)
    IN [data    |-> dict_set(data, id, ref),
        heap    |-> [hp EXCEPT ![ref].id = Some(id)],
        id_iter |-> it + 1,
        last_id |-> id]

\* NoteBook.add_note(note): note is the object at ref, `it` the counter
NoteBook_add_note(data, hp, it, ref) ==
    LET id == it
    IN [data    |-> dict_set(data, id, ref),
        heap    |-> [hp EXCEPT ![ref].id = Some(id)],
        id_iter |-> it + 1,
        last_id |-> id]

\* NoteBook.delete_note(id_) for a key that is present
NoteBook_delete_note(data, id_) == dict_del(data, id_)

\* a new object on the heap, at the smallest free reference
NewRef(hp) == CHOOSE r \in 1..(Cardinality(DOMAIN hp) + 1) : r \notin DOMAIN hp

Alloc(hp, ref, obj) == [r \in DOMAIN hp \cup {ref} |-> IF r = ref THEN obj ELSE hp[r]]

\* objects no entry of the NoteBook refers to are unreachable once the caller returns
Collect(hp, data) == [r \in DOMAIN hp \cap dict_vals(data) |-> hp[r]]

----------------------------------------------------------------------------
(* Python lists searched with ==, as list.index, list.remove and `in` do *)

list_contains(l, v) == \E i \in 1..Len(l) : l[i] = v

\* list.index(v): the first position holding v, for a v that is present
list_index(l, v) == CHOOSE i \in 1..Len(l) : l[i] = v /\ \A j \in 1..(i - 1) : l[j] # v

\* list.remove(v): drops the first element equal to v, for a v that is present
list_remove(l, v) ==
    LET i == list_index(l, v)
    IN SubSeq(l, 1, i - 1) \o SubSeq(l, i + 1, Len(l))

----------------------------------------------------------------------------
(* contacts.py: Name, Phone, Record, AddressBook *)

NAME_MAX_LEN == 20

PHONE_LEN == 10

AsciiDigits == {"0", "1", "2", "3", "4", "5", "6", "7", "8", "9"}

\* a digit outside ASCII (ARABIC-INDIC DIGIT THREE), written by its code point
NonAsciiDigits == {"U+0663"}

\* str.isascii and str.isdigit, character by character
isascii(value) == \A i \in 1..Len(value) : value[i] \notin NonAsciiDigits

isdigit(value) ==
    /\ Len(value) > 0
    /\ \A i \in 1..Len(value) : value[i] \in AsciiDigits \cup NonAsciiDigits

\* a plausible slip: the limit is off by one
Name_valid_off(value) == Len(value) <= NAME_MAX_LEN + 1

\* Name.set_value: raises InvalidNameFormatError unless this holds
Name_valid(value) == Len(value) <= NAME_MAX_LEN

\* a plausible slip: isascii is not asked
Phone_valid_anydigit(value) ==
    ~(Len(value) # PHONE_LEN \/ value[1] # "0" \/ ~isdigit(value))

\* Phone.set_value: raises InvalidPhoneFormatError unless this holds
Phone_valid(value) ==
    ~(Len(value) # PHONE_LEN \/ value[1] # "0" \/ ~(isascii(value) /\ isdigit(value)))

\* Record.__init__(name) for a valid name
Record_init(name) ==
    [name |-> name, phones |-> <<>>, birthday |-> None, address |-> None,
     email |-> None, photo |-> None]

\* a plausible slip: no duplicate check
Record_add_phone_nocheck(phones, value) ==
    IF ~Phone_valid(value)
    THEN [phones |-> phones, ret |-> "InvalidPhoneFormatError"]
    ELSE [phones |-> Append(phones, value), ret |-> "True"]

\* Record.add_phone(value)
Record_add_phone(phones, value) ==
    IF list_contains(phones, value)
    THEN [phones |-> phones, ret |-> "False"]
    ELSE IF ~Phone_valid(value)
         THEN [phones |-> phones, ret |-> "InvalidPhoneFormatError"]
         ELSE [phones |-> Append(phones, value), ret |-> "True"]

\* Record.remove_phone(value)
Record_remove_phone(phones, value) ==
    IF list_contains(phones, value)
    THEN [phones |-> list_remove(phones, value), ret |-> "None"]
    ELSE [phones |-> phones, ret |-> "ValueError"]

\* a plausible slip: the old phone is removed and the new one appended
Record_edit_phone_append(phones, old_value, new_value) ==
    IF ~Phone_valid(new_value)
    THEN [phones |-> phones, ret |-> "InvalidPhoneFormatError"]
    ELSE IF ~list_contains(phones, old_value)
         THEN [phones |-> phones, ret |-> "ValueError"]
         ELSE [phones |-> Append(list_remove(phones, old_value), new_value), ret |-> "None"]

\* Record.edit_phone(old_value, new_value): Phone(new_value) is evaluated
\* first, then self.phones.index(old_value), then the element is assigned
Record_edit_phone(phones, old_value, new_value) ==
    IF ~Phone_valid(new_value)
    THEN [phones |-> phones, ret |-> "InvalidPhoneFormatError"]
    ELSE IF ~list_contains(phones, old_value)
         THEN [phones |-> phones, ret |-> "ValueError"]
         ELSE [phones |-> [phones EXCEPT ![list_index(phones, old_value)] = new_value],
               ret |-> "None"]

\* Record.find_phone(value): the position of the Phone found, or None
Record_find_phone(phones, value) ==
    IF list_contains(phones, value) THEN Some(list_index(phones, value)) ELSE None

\* a plausible slip: an existing key is deleted first, so the record moves
\* to the end
AddressBook_add_record_end(data, record) ==
    Append(IF dict_has(data, record.name) THEN dict_del(data, record.name) ELSE data,
           [key |-> record.name, val |-> record])

\* AddressBook.add_record(record)
AddressBook_add_record(data, record) == dict_set(data, record.name, record)

\* AddressBook.delete_record(name) for a key that is present
AddressBook_delete_record(data, name) == dict_del(data, name)

\* the dict comprehension of rename_record, item by item
RECURSIVE Rekey(_, _, _, _)
Rekey(items, name, new_name, acc) ==
    IF items = <<>>
    THEN acc
    ELSE Rekey(Tail(items), name, new_name,
               dict_set(acc,
                        IF Head(items).key = name THEN new_name ELSE Head(items).key,
                        Head(items).val))

\* a plausible slip: the key is changed and the record's name field is not
AddressBook_rename_record_key(data, name, new_name) == Rekey(data, name, new_name, <<>>)

\* AddressBook.rename_record(name, new_name) for a key that is present and a
\* valid new name: the record's name is set, then the dict is rebuilt
AddressBook_rename_record(data, name, new_name) ==
    Rekey([data EXCEPT ![dict_index(data, name)].val.name = new_name], name, new_name, <<>>)

\* handle_phone(args, book) with args = [name, value, replace_value]; an
\* argument that was not given is None
handle_phone(data, name, value, replace_value) ==
    IF ~dict_has(data, name)
    THEN [book |-> data, ret |-> "RecordNotExistsError"]
    ELSE LET i == dict_index(data, name)
             phones == data[i].val.phones
             put(r) == [book |-> [data EXCEPT ![i].val.phones = r.phones], ret |-> r.ret]
         IN IF value = None
            THEN [book |-> data, ret |-> "phones"]
            ELSE IF replace_value = None
            THEN put(Record_add_phone(phones, value[1]))
            ELSE IF Record_find_phone(phones, value[1]) = None
            THEN [book |-> data, ret |-> "PhoneNotExistsError"]
            ELSE IF replace_value[1] = <<>>
            THEN put(Record_remove_phone(phones, value[1]))
            ELSE IF ~Phone_valid(replace_value[1])
            THEN [book |-> data, ret |-> "InvalidPhoneFormatError"]
            ELSE put([phones |-> [phones EXCEPT
                                    ![Record_find_phone(phones, value[1])[1]] = replace_value[1]],
                      ret |-> "None"])

----------------------------------------------------------------------------
(* core.py: load_store, save_store *)

\* the default of data["meta"]["NoteBook.id_iter"] when the store has none
META_DEFAULT == 1

EmptyHeap == [r \in {} |-> None]

\* what load_store starts from when the data file is not found
EmptyStore == [meta |-> META_DEFAULT, book |-> <<>>, notebook |-> <<>>, heap |-> EmptyHeap]

\* a plausible slip: the counter restarts at the saved value itself
load_store_counter_same(meta) == NoteBook_reset_id(meta)

\* load_store: NoteBook.reset_id(data["meta"]["NoteBook.id_iter"] + 1)
load_store_counter(meta) == NoteBook_reset_id(meta + 1)

\* load_store: the data it returns, read from the file save_store wrote
load_store_data(dsk) == IF dsk = None THEN EmptyStore ELSE dsk[1]

\* save_store: data["meta"]["NoteBook.id_iter"] = NoteBook.last_id, then pickle.dump(data)
save_store_data(bk, data, hp, last) ==
    [meta |-> last, book |-> bk, notebook |-> data, heap |-> hp]

\* before load_store has run: no key in memory, no config file; sealed is the
\* key the data file was encrypted with (None: a plain pickle) and torn tells
\* that the data file was left cut short
ConfigInit == [key |-> None, file |-> None, sealed |-> None, torn |-> FALSE]

\* load_store: the key is read from the config file, which is created with a
\* null key when it is not found; data["config"] comes from the data file,
\* which holds the key it was saved with, or is this cfg when there is none
load_store_config(cfg) ==
    IF cfg.file = None
    THEN [cfg EXCEPT !.key = None, !.file = Some(None)]
    ELSE [cfg EXCEPT !.key = cfg.file[1]]

\* load_store: what reading the data file raises with the key of the config
\* file, "None" when the data is read or the file is not found
load_store_reads(dsk, cfg) ==
    LET key == IF cfg.file = None THEN None ELSE cfg.file[1]
    IN IF dsk = None THEN "None"
       ELSE IF key = None
       THEN IF cfg.torn THEN "EOFError"
            ELSE IF cfg.sealed # None THEN "UnpicklingError" ELSE "None"
       ELSE IF cfg.torn \/ cfg.sealed # key THEN "InvalidToken" ELSE "None"

\* save_store: json.dump(data["config"]) into the config file, then the data
\* file is written, plain or encrypted with data["config"]["encryption_key"]
save_store_config(cfg, fault) ==
    IF fault = "config" THEN cfg
    ELSE IF fault = "open" THEN [cfg EXCEPT !.file = Some(cfg.key)]
    ELSE IF fault = "write" THEN [cfg EXCEPT !.file = Some(cfg.key), !.torn = TRUE]
    ELSE [cfg EXCEPT !.file = Some(cfg.key), !.sealed = cfg.key, !.torn = FALSE]

\* handle_tag(args, notebook) with args = [note_id, value, replace_value]; the
\* note id is given as the integer its text denotes
handle_tag(data, hp, note_id, value, replace_value) ==
    IF note_id < 0
    THEN [heap |-> hp, ret |-> "InvalidCmdArgTypeError"]
    ELSE IF dict_get(data, note_id) = None
    THEN [heap |-> hp, ret |-> "NoteNotExistsError"]
    ELSE LET ref == dict_get(data, note_id)[1]
             tags == hp[ref].tags
             put(r) == [heap |-> [hp EXCEPT ![ref].tags = r.tags], ret |-> r.ret]
         IN IF value = None
            THEN [heap |-> hp, ret |-> "tags"]
            ELSE IF replace_value = None
            THEN put(Note_add_tag(tags, value[1]))
            ELSE IF Note_find_tag(tags, value[1]) = None
            THEN [heap |-> hp, ret |-> "TagNotExistsError"]
            ELSE IF replace_value[1] = <<>>
            THEN put(Note_remove_tag(tags, value[1]))
            ELSE IF ~Tag_valid(str_strip(replace_value[1]))
            THEN [heap |-> hp, ret |-> "InvalidTagFormatError"]
            ELSE put([tags |-> [tags EXCEPT
                                  ![Note_find_tag(tags, value[1])[1]] = Tag_init(replace_value[1])],
                      ret |-> "None"])

----------------------------------------------------------------------------
(* utils.py, datetime.date and contacts.py: Birthday, get_upcoming_birthdays *)

\* utils.is_leap_year(year): `and` binds tighter than `or`
is_leap_year(year) == (year % 4 = 0 /\ year % 100 # 0) \/ year % 400 = 0

\* datetime.date(year, month, day), once validated
date(year, month, day) == [year |-> year, month |-> month, day |-> day]

\* datetime._days_in_month(year, month)
days_in_month(year, month) ==
    IF month = 2 /\ is_leap_year(year) THEN 29
    ELSE <<31, 28, 31, 30, 31, 30, 31, 31, 30, 31, 30, 31>>[month]

\* the check date() makes: it raises ValueError unless this holds
date_valid(year, month, day) ==
    /\ year \in 1..9999
    /\ month \in 1..12
    /\ day >= 1
    /\ day <= days_in_month(year, month)

RECURSIVE days_before_month(_, _)
days_before_month(year, month) ==
    IF month = 1 THEN 0
    ELSE days_before_month(year, month - 1) + days_in_month(year, month - 1)

\* date.toordinal(): 1 for 01.01.0001
date_toordinal(d) ==
    LET y == d.year - 1
    IN y * 365 + (y \div 4) - (y \div 100) + (y \div 400)
       + days_before_month(d.year, d.month) + d.day

\* a plausible slip: the years are compared and nothing else
date_lt_year(a, b) == a.year < b.year

\* date.__lt__: (year, month, day) compared in this order
date_lt(a, b) ==
    \/ a.year < b.year
    \/ a.year = b.year /\ a.month < b.month
    \/ a.year = b.year /\ a.month = b.month /\ a.day < b.day

\* int(s) for a string of ASCII digits, which a space may precede
RECURSIVE str_int(_)
str_int(s) ==
    LET DigitSeq == <<"0", "1", "2", "3", "4", "5", "6", "7", "8", "9">>
        digit_val(c) == (CHOOSE i \in 1..10 : DigitSeq[i] = c) - 1
    IN IF s = <<>> THEN 0
       ELSE IF s[Len(s)] = " " THEN 0
       ELSE 10 * str_int(SubSeq(s, 1, Len(s) - 1)) + digit_val(s[Len(s)])

\* str.find(c): the first position of c, 0 when there is none
str_find(s, c) ==
    IF \E i \in 1..Len(s) : s[i] = c
    THEN CHOOSE i \in 1..Len(s) : s[i] = c /\ \A j \in 1..(i - 1) : s[j] # c
    ELSE 0

\* datetime.strptime(value, "%d.%m.%Y").date() for a value of ASCII
\* characters: Some(date), or None where it raises ValueError.  The text %d
\* matches is 3[0-1] | [1-2]\d | 0[1-9] | [1-9] | " "[1-9], the text %m
\* matches is 1[0-2] | 0[1-9] | [1-9], the text %Y matches is four digits.
strptime(value) ==
    LET p == str_find(value, ".")
        rest == SubSeq(value, p + 1, Len(value))
        q == str_find(rest, ".")
        d == SubSeq(value, 1, p - 1)
        m == SubSeq(rest, 1, q - 1)
        y == SubSeq(rest, q + 1, Len(rest))
        strptime_d(s) ==
            \/ Len(s) = 1 /\ s[1] \in AsciiDigits \ {"0"}
            \/ /\ Len(s) = 2
               /\ \/ s[1] = "3" /\ s[2] \in {"0", "1"}
                  \/ s[1] \in {"1", "2"} /\ s[2] \in AsciiDigits
                  \/ s[1] \in {"0", " "} /\ s[2] \in AsciiDigits \ {"0"}
        strptime_m(s) ==
            \/ Len(s) = 1 /\ s[1] \in AsciiDigits \ {"0"}
            \/ /\ Len(s) = 2
               /\ \/ s[1] = "1" /\ s[2] \in {"0", "1", "2"}
                  \/ s[1] = "0" /\ s[2] \in AsciiDigits \ {"0"}
        strptime_Y(s) == Len(s) = 4 /\ \A i \in 1..4 : s[i] \in AsciiDigits
    IN IF p = 0 \/ q = 0 THEN None
       ELSE IF ~(strptime_d(d) /\ strptime_m(m) /\ strptime_Y(y)) THEN None
       ELSE IF ~date_valid(str_int(y), str_int(m), str_int(d)) THEN None
       ELSE Some(date(str_int(y), str_int(m), str_int(d)))

\* Birthday.set_value: raises InvalidDateFormatError unless this holds
Birthday_valid(value) == strptime(value) # None

\* Birthday(value).value for a valid value
Birthday_init(value) == strptime(value)[1]

\* Record.set_birthday(value) on the record rec
Record_set_birthday(rec, value) ==
    IF ~Birthday_valid(value)
    THEN [rec |-> rec, ret |-> "InvalidDateFormatError"]
    ELSE [rec |-> [rec EXCEPT !.birthday = Some(Birthday_init(value))], ret |-> "None"]

\* bd.replace(year=.., month=.., day=..): Some(date), or None where it
\* raises ValueError
date_replace(year, month, day) ==
    IF date_valid(year, month, day) THEN Some(date(year, month, day)) ELSE None

\* a plausible slip: 28 February stands in for 29 February
congrats_this_year_feb28(bd, today) ==
    IF bd.month = 2 /\ bd.day = 29 /\ ~is_leap_year(today.year)
    THEN date_replace(today.year, 2, 28)
    ELSE date_replace(today.year, bd.month, bd.day)

\* get_upcoming_birthdays: the congratulation date in this year
congrats_this_year(bd, today) ==
    LET this_is_leap_year == is_leap_year(today.year)
        is_feb29 == bd.month = 2 /\ bd.day = 29
    IN IF is_feb29 /\ ~this_is_leap_year
       THEN date_replace(today.year, 3, 1)
       ELSE date_replace(today.year, bd.month, bd.day)

\* a plausible slip: the leap check is made on today's year
congrats_next_year_this(bd, today) ==
    IF bd.month = 2 /\ bd.day = 29 /\ ~is_leap_year(today.year)
    THEN date_replace(today.year + 1, 3, 1)
    ELSE date_replace(today.year + 1, bd.month, bd.day)

\* get_upcoming_birthdays: the congratulation date in the next year
congrats_next_year(bd, today) ==
    LET next_is_leap_year == is_leap_year(today.year + 1)
        is_feb29 == bd.month = 2 /\ bd.day = 29
    IN IF is_feb29 /\ ~next_is_leap_year
       THEN date_replace(today.year + 1, 3, 1)
       ELSE date_replace(today.year + 1, bd.month, bd.day)

\* a plausible slip: next_age is not incremented when the date is moved
upcoming_entry_age(rec, bd, today) ==
    LET this == congrats_this_year(bd, today)
        next == congrats_next_year(bd, today)
        entry(d) == Some([record |-> rec, congratulation_date |-> d,
                          wait_days_count |-> date_toordinal(d) - date_toordinal(today),
                          next_age |-> today.year - bd.year])
    IN IF this = None THEN None
       ELSE IF date_lt(this[1], today)
       THEN IF next = None THEN None ELSE entry(next[1])
       ELSE entry(this[1])

\* get_upcoming_birthdays, the body of the loop up to wait_days_count, for a
\* record of birthday bd: the entry computed, or None where replace raises
upcoming_entry(rec, bd, today) ==
    LET next_age == today.year - bd.year
        this == congrats_this_year(bd, today)
        next == congrats_next_year(bd, today)
        entry(d, age) == Some([record |-> rec, congratulation_date |-> d,
                               wait_days_count |-> date_toordinal(d) - date_toordinal(today),
                               next_age |-> age])
    IN IF this = None THEN None
       ELSE IF date_lt(this[1], today)
       THEN IF next = None THEN None ELSE entry(next[1], next_age + 1)
       ELSE entry(this[1], next_age)

\* a plausible slip: a birthday exactly `days` away is left out
upcoming_included_lt(wait_days_count, days) ==
    0 <= wait_days_count /\ wait_days_count < days

\* get_upcoming_birthdays: `if 0 <= wait_days_count <= days`
upcoming_included(wait_days_count, days) ==
    0 <= wait_days_count /\ wait_days_count <= days

\* a plausible slip: the result is returned in the order of the book
sorted_by_date_unsorted(result) == result

\* sorted(result, key=congratulation_date): a stable sort; e goes behind
\* every entry of `sorted` that is not after it
RECURSIVE sorted_insert(_, _)
sorted_insert(sorted, e) ==
    IF sorted = <<>> THEN <<e>>
    ELSE IF date_lt(e.congratulation_date, sorted[Len(sorted)].congratulation_date)
    THEN Append(sorted_insert(SubSeq(sorted, 1, Len(sorted) - 1), e), sorted[Len(sorted)])
    ELSE Append(sorted, e)

RECURSIVE sorted_by_date(_)
sorted_by_date(result) ==
    IF result = <<>> THEN <<>>
    ELSE sorted_insert(sorted_by_date(SubSeq(result, 1, Len(result) - 1)), result[Len(result)])

\* the loop of get_upcoming_birthdays over self.data.values(), from entry i
\* on: Some(result), or None where replace raises ValueError
RECURSIVE upcoming_loop(_, _, _, _, _)
upcoming_loop(data, i, today, days, result) ==
    IF i > Len(data) THEN Some(result)
    ELSE LET rec == data[i].val
         IN IF rec.birthday = None
            THEN upcoming_loop(data, i + 1, today, days, result)
            ELSE LET e == upcoming_entry(rec, rec.birthday[1], today)
                 IN IF e = None THEN None
                    ELSE IF upcoming_included(e[1].wait_days_count, days)
                    THEN upcoming_loop(data, i + 1, today, days, Append(result, e[1]))
                    ELSE upcoming_loop(data, i + 1, today, days, result)

\* AddressBook.get_upcoming_birthdays(days), on the day date.today() returns:
\* the list returned, or the exception raised
AddressBook_get_upcoming_birthdays(data, today, days) ==
    LET result == upcoming_loop(data, 1, today, days, <<>>)
    IN IF result = None
       THEN [exc |-> "ValueError", list |-> <<>>]
       ELSE [exc |-> "None", list |-> sorted_by_date(result[1])]

----------------------------------------------------------------------------
(* contacts.py: Address, Email; notes.py: Note.set_body, update_note, get_note *)

ADDRESS_MAX_LEN == 300

EMAIL_MAX_LEN == 254

\* Address.set_value: raises InvalidAddressFormatError unless this holds
Address_valid(value) == ~(Len(value) > ADDRESS_MAX_LEN)

\* Email.set_value: raises InvalidEmailFormatError unless this holds.
\* EMAIL_PATTERN.match: one or more of [a-zA-Z0-9._%+-], "@", one or more of
\* [a-zA-Z0-9.-], ".", two or more letters, then the end of the string, which
\* `$` also finds before a final newline
Email_valid(value) ==
    LET alnum == TagChars \ {" ", "@", "#", "$", "%", "&", ".", "_", "+", "-"}
        letters == alnum \ AsciiDigits
        local == alnum \cup {".", "_", "%", "+", "-"}
        domain == alnum \cup {".", "-"}
        n == IF value # <<>> /\ value[Len(value)] = "\n" THEN Len(value) - 1 ELSE Len(value)
        match == \E a, p \in 1..n :
                    /\ a > 1
                    /\ \A i \in 1..(a - 1) : value[i] \in local
                    /\ value[a] = "@"
                    /\ p > a + 1
                    /\ \A i \in (a + 1)..(p - 1) : value[i] \in domain
                    /\ value[p] = "."
                    /\ n - p >= 2
                    /\ \A i \in (p + 1)..n : value[i] \in letters
    IN ~(Len(value) > EMAIL_MAX_LEN \/ ~match)

\* Record.set_address(value) on the record rec
Record_set_address(rec, value) ==
    IF ~Address_valid(value)
    THEN [rec |-> rec, ret |-> "InvalidAddressFormatError"]
    ELSE [rec |-> [rec EXCEPT !.address = Some(value)], ret |-> "None"]

\* Record.set_email(value) on the record rec
Record_set_email(rec, value) ==
    IF ~Email_valid(value)
    THEN [rec |-> rec, ret |-> "InvalidEmailFormatError"]
    ELSE [rec |-> [rec EXCEPT !.email = Some(value)], ret |-> "None"]

\* a plausible slip: the value is stored before it is validated
Note_set_body_stored(note, value) ==
    [note |-> [note EXCEPT !.body = value],
     ret |-> IF ~Body_valid(value) THEN "InvalidBodyFormatError" ELSE "None"]

\* Note.set_body(value) on the object note: self.body = Body(value)
Note_set_body(note, value) ==
    IF ~Body_valid(value)
    THEN [note |-> note, ret |-> "InvalidBodyFormatError"]
    ELSE [note |-> [note EXCEPT !.body = value], ret |-> "None"]

\* NoteBook.get_note(id_): self.data.get(id_)
NoteBook_get_note(data, id_) == dict_get(data, id_)

\* a plausible slip: the note is looked up with get and an absent id is passed over
NoteBook_update_note_quiet(data, hp, id_, body) ==
    IF NoteBook_get_note(data, id_) = None
    THEN [heap |-> hp, ret |-> "None"]
    ELSE LET ref == dict_get(data, id_)[1]
             r == Note_set_body(hp[ref], body)
         IN [heap |-> [hp EXCEPT ![ref] = r.note], ret |-> r.ret]

\* NoteBook.update_note(id_, body): self.data[id_].set_body(body)
NoteBook_update_note(data, hp, id_, body) ==
    IF ~dict_has(data, id_)
    THEN [heap |-> hp, ret |-> "KeyError"]
    ELSE LET ref == dict_get(data, id_)[1]
             r == Note_set_body(hp[ref], body)
         IN [heap |-> [hp EXCEPT ![ref] = r.note], ret |-> r.ret]

----------------------------------------------------------------------------
(* contacts.py: Birthday.__str__, AddressBook.find; notes.py: NoteBook.find *)

\* str.lower(), for ASCII text
str_lower(s) ==
    LET upper == <<"A", "B", "C", "D", "E", "F", "G", "H", "I", "J", "K", "L", "M",
                   "N", "O", "P", "Q", "R", "S", "T", "U", "V", "W", "X", "Y", "Z">>
        lower == <<"a", "b", "c", "d", "e", "f", "g", "h", "i", "j", "k", "l", "m",
                   "n", "o", "p", "q", "r", "s", "t", "u", "v", "w", "x", "y", "z">>
        low(c) == IF \E k \in 1..26 : upper[k] = c
                  THEN lower[CHOOSE k \in 1..26 : upper[k] = c]
                  ELSE c
    IN [i \in 1..Len(s) |-> low(s[i])]

\* `sub in s` for two str
str_in(sub, s) ==
    \E i \in 0..(Len(s) - Len(sub)) : SubSeq(s, i + 1, i + Len(sub)) = sub

\* the decimal digits of n >= 0, zero-padded to width
RECURSIVE strftime_num(_, _)
strftime_num(n, width) ==
    LET digit == <<"0", "1", "2", "3", "4", "5", "6", "7", "8", "9">>[(n % 10) + 1]
    IN IF n < 10 /\ width <= 1 THEN <<digit>>
       ELSE Append(strftime_num(n \div 10, width - 1), digit)

\* Birthday.__str__: self.value.strftime("%d.%m.%Y").  %d and %m give two
\* digits; what %Y gives for a year below 1000 is left to the C library: four
\* digits (pad) or the digits of the year alone
Birthday_str(d, pad) ==
    strftime_num(d.day, 2) \o <<".">> \o strftime_num(d.month, 2) \o <<".">>
       \o strftime_num(d.year, IF pad THEN 4 ELSE 1)

\* AddressBook.find(search_value): the list of the records matched
AddressBook_find(data, search_value, pad) ==
    LET value == str_lower(search_value)
        matched(item) ==
            LET record == item.val
            IN \/ str_in(value, str_lower(record.name))
               \/ record.birthday # None /\ str_in(value, Birthday_str(record.birthday[1], pad))
               \/ record.address # None /\ str_in(value, str_lower(record.address[1]))
               \/ record.email # None /\ str_in(value, str_lower(record.email[1]))
               \/ \E k \in 1..Len(record.phones) : str_in(value, record.phones[k])
        found == SelectSeq(data, matched)
    IN [i \in 1..Len(found) |-> found[i].val]

\* Note.__init__(body, tags) for a valid body: self.tags = tags.copy() if tags
\* else []; the elements stay the str objects that were given
Note_init_tags(body, tags) ==
    [id |-> None, body |-> body,
     tags |-> [i \in 1..Len(tags) |-> [cls |-> "str", value |-> tags[i]]]]

\* NoteBook.find(search_value): the dict of the notes matched, or the
\* exception raised.  any() asks the tags in order and stops at the first
\* match; tag.value raises AttributeError for an element that is a str
RECURSIVE NoteBook_find(_, _, _, _, _)
NoteBook_find(data, hp, search_value, i, notes) ==
    IF i > Len(data) THEN [exc |-> "None", notes |-> notes]
    ELSE LET note == hp[data[i].val]
             value == str_lower(search_value)
             hit(k) == note.tags[k].cls = "Tag" /\ str_in(value, str_lower(note.tags[k].value))
             stop(k) == note.tags[k].cls # "Tag" \/ hit(k)
             first == IF \E k \in 1..Len(note.tags) : stop(k)
                      THEN CHOOSE k \in 1..Len(note.tags) :
                              stop(k) /\ \A j \in 1..(k - 1) : ~stop(j)
                      ELSE 0
         IN IF str_in(value, str_lower(note.body)) \/ (first # 0 /\ hit(first))
            THEN NoteBook_find(data, hp, search_value, i + 1,
                               dict_set(notes, note.id[1], data[i].val))
            ELSE IF first # 0
            THEN [exc |-> "AttributeError", notes |-> <<>>]
            ELSE NoteBook_find(data, hp, search_value, i + 1, notes)

\* handle_encryption(args, config) with args = [flag]; key is what
\* Fernet.generate_key() returns
handle_encryption(cfg, flag, key) ==
    IF str_lower(flag) = <<"o", "n">> /\ cfg.key = None
    THEN [config |-> [cfg EXCEPT !.key = Some(key)], ret |-> "None"]
    ELSE IF str_lower(flag) = <<"o", "f", "f">>
    THEN [config |-> [cfg EXCEPT !.key = None], ret |-> "None"]
    ELSE [config |-> cfg, ret |-> "InvalidCmdArgTypeError"]

----------------------------------------------------------------------------
(* Inputs *)

BodyInputs == {<<"h", "i">>, Rep("x", BODY_MAX_LEN + 1)}

IdInputs == 0..MaxId

NameA == <<"A">>
NameB == <<"B">>
NameC == <<"C">>
NameZ == <<"Z">>

NameInputs == {NameA, NameB, NameC, NameZ, Rep("n", NAME_MAX_LEN + 1)}

Phone1 == <<"0">> \o Rep("1", PHONE_LEN - 1)
Phone2 == <<"0">> \o Rep("2", PHONE_LEN - 1)
Phone3 == <<"0">> \o Rep("3", PHONE_LEN - 1)

PhoneInputs ==
    {Phone1, Phone2, Phone3,
     <<"0">> \o Rep("1", PHONE_LEN - 2),                  \* too short
     <<"1">> \o Rep("0", PHONE_LEN - 1),                  \* does not start with 0
     <<"0", "a">> \o Rep("1", PHONE_LEN - 2),             \* not a digit
     <<"0", "U+0663">> \o Rep("1", PHONE_LEN - 2)}        \* a digit, not ASCII

TagInputs ==
    {<<"a", "b", "c">>,
     <<" ", "a", "b", "c", " ">>,
     <<"d", "e", "f">>,
     <<"\t", "d", "e", "f">>,
     <<"a", "b", " ">>,                                    \* too short once stripped
     <<"a", "!", "c">>}                                    \* a character that is not allowed

TagArgs == {None} \cup {Some(v) : v \in TagInputs \cup {<<>>}}

\* a command argument: not given (None), or a string, which may be empty
PhoneArgs == {None} \cup {Some(v) : v \in PhoneInputs \cup {<<>>}}

----------------------------------------------------------------------------
(* The notes life cycle: new-note, delete, save at exit, load at start *)

HistInit ==
    [idLog          |-> <<>>,    \* ids issued by this process, in order
     issued         |-> {},      \* ids issued by any process so far
     lastIssued     |-> None,    \* the id issued last, by any process
     savedLast      |-> None,    \* lastIssued when the store was last written
     loadedLast     |-> None,    \* savedLast of the store this process loaded
     firstAfterLoad |-> None,    \* the first id issued since the load
     dirty          |-> FALSE,   \* an id was issued since the store was last written
     lost           |-> FALSE,   \* some process ended with ids issued and not saved
     noStore        |-> FALSE,   \* some process after the first one found no store to load
     clashKey       |-> FALSE,   \* add_note was given an id that was a key already
     clashIssued    |-> FALSE]   \* add_note was given an id issued before

Init ==
    /\ book = <<>>
    /\ notebook = <<>>
    /\ heap = EmptyHeap
    /\ id_iter = 0
    /\ last_id = 0
    /\ disk = None
    /\ config = ConfigInit
    /\ call = [op |-> "import", args |-> <<>>]
    /\ ret = "None"
    /\ hist = HistInit

\* main(): the store is loaded before the first command is read
Started == call.op # "import"

\* handle_new_note: Note(body), then NoteBook.add_note(note)
AddNote(body) ==
    /\ Started
    /\ id_iter <= MaxId
    /\ call' = [op |-> "add_note", args |-> <<body>>]
    /\ IF ~Body_valid(body)
       THEN /\ ret' = "InvalidBodyFormatError"
            /\ UNCHANGED <<progVars, hist>>
       ELSE LET ref == NewRef(heap)
                r == NoteBook_add_note(notebook, Alloc(heap, ref, Note_init(body)), id_iter, ref)
                id == r.heap[ref].id[1]
            IN /\ notebook' = r.data
               /\ heap' = r.heap
               /\ id_iter' = r.id_iter
               /\ last_id' = r.last_id
               /\ ret' = "None"
               /\ hist' = [hist EXCEPT
                     !.idLog = Append(@, id),
                     !.issued = @ \cup {id},
                     !.lastIssued = Some(id),
                     !.firstAfterLoad = IF @ = None THEN Some(id) ELSE @,
                     !.dirty = TRUE,
                     !.clashKey = @ \/ dict_has(notebook, id),
                     !.clashIssued = @ \/ id \in hist.issued]
               /\ UNCHANGED <<book, disk, config>>

\* NoteBook.delete_note(id_): del self.data[id_]
DeleteNote(id_) ==
    /\ Started
    /\ call' = [op |-> "delete_note", args |-> <<id_>>]
    /\ IF dict_has(notebook, id_)
       THEN /\ notebook' = NoteBook_delete_note(notebook, id_)
            /\ heap' = Collect(heap, notebook')
            /\ ret' = "None"
       ELSE /\ ret' = "KeyError"
            /\ UNCHANGED <<notebook, heap>>
    /\ UNCHANGED <<book, id_iter, last_id, disk, config, hist>>

\* save_store(data, path, cfg_path).  fault is the OSError it meets: "None",
\* "config" (the config file cannot be opened), "open" (the data file cannot
\* be opened) or "write" (the data file is opened, hence emptied, and the
\* write fails)
SaveStoreFault(fault) ==
    /\ Started
    /\ call' = [op |-> "save_store", args |-> <<fault>>]
    /\ disk' = IF fault \in {"None", "write"}
               THEN Some(save_store_data(book, notebook, heap, last_id))
               ELSE disk
    /\ config' = save_store_config(config, fault)
    /\ ret' = IF fault = "None" THEN "saved" ELSE IF fault = "config" THEN "None" ELSE "OSError"
    /\ hist' = IF fault = "None"
               THEN [hist EXCEPT !.savedLast = hist.lastIssued, !.dirty = FALSE]
               ELSE hist
    /\ UNCHANGED <<book, notebook, heap, id_iter, last_id>>

\* save_store with no I/O error
SaveStore == SaveStoreFault("None")

\* a process starts: load_store(path, cfg_path) reads what the last save_store
\* wrote; when the data file cannot be unpickled or decrypted the exception
\* leaves load_store and the process ends
LoadStore ==
    LET data == load_store_data(disk)
        c == load_store_counter(data.meta)
    IN /\ c.id_iter <= MaxId + 1
       /\ call' = [op |-> "load_store", args |-> <<>>]
       /\ IF load_store_reads(disk, config) = "None"
          THEN /\ book' = data.book
               /\ notebook' = data.notebook
               /\ heap' = data.heap
               /\ id_iter' = c.id_iter
               /\ last_id' = c.last_id
               /\ ret' = "data"
               /\ hist' = [hist EXCEPT
                     !.idLog = <<>>,
                     !.loadedLast = IF disk = None THEN None ELSE hist.savedLast,
                     !.firstAfterLoad = None,
                     !.lost = @ \/ hist.dirty,
                     !.noStore = @ \/ (Started /\ disk = None),
                     !.dirty = FALSE]
          ELSE /\ ret' = load_store_reads(disk, config)
               /\ UNCHANGED <<book, notebook, heap, id_iter, last_id, hist>>
       /\ config' = load_store_config(config)
       /\ UNCHANGED disk

Next ==
    \/ \E body \in BodyInputs : AddNote(body)
    \/ \E id_ \in IdInputs : DeleteNote(id_)
    \/ SaveStore
    \/ LoadStore

Spec == Init /\ [][Next]_vars

----------------------------------------------------------------------------
(* The address book: new-record, add_record, delete, rename, phones *)

\* the counter once load_store has found no store
StartCounter == load_store_counter(EmptyStore.meta)

\* the state main() is in once load_store has found no store
InitStarted ==
    /\ book = EmptyStore.book
    /\ notebook = EmptyStore.notebook
    /\ heap = EmptyStore.heap
    /\ id_iter = StartCounter.id_iter
    /\ last_id = StartCounter.last_id
    /\ disk = None
    /\ config = load_store_config(ConfigInit)
    /\ call = [op |-> "load_store", args |-> <<>>]
    /\ ret = "data"
    /\ hist = HistInit

\* handle_new_record: refuses an existing name, else add_record(Record(name))
NewRecord(name) ==
    /\ call' = [op |-> "new_record", args |-> <<name>>]
    /\ IF dict_get(book, name) # None
       THEN ret' = "RecordExistsError" /\ book' = book
       ELSE IF ~Name_valid(name)
       THEN ret' = "InvalidNameFormatError" /\ book' = book
       ELSE ret' = "None" /\ book' = AddressBook_add_record(book, Record_init(name))
    /\ UNCHANGED <<notebook, heap, id_iter, last_id, disk, config, hist>>

\* AddressBook.add_record(Record(name))
AddRecord(name) ==
    /\ call' = [op |-> "add_record", args |-> <<name>>]
    /\ IF ~Name_valid(name)
       THEN ret' = "InvalidNameFormatError" /\ book' = book
       ELSE ret' = "None" /\ book' = AddressBook_add_record(book, Record_init(name))
    /\ UNCHANGED <<notebook, heap, id_iter, last_id, disk, config, hist>>

\* AddressBook.delete_record(name): del self.data[name]
DeleteRecord(name) ==
    /\ call' = [op |-> "delete_record", args |-> <<name>>]
    /\ IF dict_has(book, name)
       THEN ret' = "None" /\ book' = AddressBook_delete_record(book, name)
       ELSE ret' = "KeyError" /\ book' = book
    /\ UNCHANGED <<notebook, heap, id_iter, last_id, disk, config, hist>>

\* AddressBook.rename_record(name, new_name): self.data[name] raises KeyError,
\* then Name.set_value raises InvalidNameFormatError, before anything changes
RenameRecord(name, new_name) ==
    /\ call' = [op |-> "rename_record", args |-> <<name, new_name>>]
    /\ IF ~dict_has(book, name)
       THEN ret' = "KeyError" /\ book' = book
       ELSE IF ~Name_valid(new_name)
       THEN ret' = "InvalidNameFormatError" /\ book' = book
       ELSE ret' = "None" /\ book' = AddressBook_rename_record(book, name, new_name)
    /\ UNCHANGED <<notebook, heap, id_iter, last_id, disk, config, hist>>

\* the phones of the Record stored under name
PhonesOf(data, name) == data[dict_index(data, name)].val.phones

SetPhones(data, name, phones) == [data EXCEPT ![dict_index(data, name)].val.phones = phones]

\* Record.add_phone(value) on the Record stored under name
AddPhone(name, value) ==
    /\ dict_has(book, name)
    /\ Len(PhonesOf(book, name)) < MaxPhones
    /\ call' = [op |-> "add_phone", args |-> <<name, value>>]
    /\ LET r == Record_add_phone(PhonesOf(book, name), value)
       IN ret' = r.ret /\ book' = SetPhones(book, name, r.phones)
    /\ UNCHANGED <<notebook, heap, id_iter, last_id, disk, config, hist>>

\* Record.remove_phone(value) on the Record stored under name
RemovePhone(name, value) ==
    /\ dict_has(book, name)
    /\ call' = [op |-> "remove_phone", args |-> <<name, value>>]
    /\ LET r == Record_remove_phone(PhonesOf(book, name), value)
       IN ret' = r.ret /\ book' = SetPhones(book, name, r.phones)
    /\ UNCHANGED <<notebook, heap, id_iter, last_id, disk, config, hist>>

\* Record.edit_phone(old_value, new_value) on the Record stored under name
EditPhone(name, old_value, new_value) ==
    /\ dict_has(book, name)
    /\ call' = [op |-> "edit_phone", args |-> <<name, old_value, new_value>>]
    /\ LET r == Record_edit_phone(PhonesOf(book, name), old_value, new_value)
       IN ret' = r.ret /\ book' = SetPhones(book, name, r.phones)
    /\ UNCHANGED <<notebook, heap, id_iter, last_id, disk, config, hist>>

\* the phone command: handle_phone([name, value, replace_value], book)
HandlePhone(name, value, replace_value) ==
    /\ value = None => replace_value = None
    /\ (dict_has(book, name) /\ value # None /\ replace_value = None)
          => Len(PhonesOf(book, name)) < MaxPhones
    /\ call' = [op |-> "handle_phone", args |-> <<name, value, replace_value>>]
    /\ LET r == handle_phone(book, name, value, replace_value)
       IN ret' = r.ret /\ book' = r.book
    /\ UNCHANGED <<notebook, heap, id_iter, last_id, disk, config, hist>>

NextBook ==
    \/ \E name \in NameInputs : NewRecord(name)
    \/ \E name \in NameInputs : AddRecord(name)
    \/ \E name \in NameInputs : DeleteRecord(name)
    \/ \E name, new_name \in NameInputs : RenameRecord(name, new_name)
    \/ \E name \in NameInputs : AddPhone(name, Phone1)

SpecBook == InitStarted /\ [][NextBook]_vars

\* the state after the command new-record A
InitPhones ==
    /\ book = AddressBook_add_record(EmptyStore.book, Record_init(NameA))
    /\ notebook = EmptyStore.notebook
    /\ heap = EmptyStore.heap
    /\ id_iter = StartCounter.id_iter
    /\ last_id = StartCounter.last_id
    /\ disk = None
    /\ config = load_store_config(ConfigInit)
    /\ call = [op |-> "new_record", args |-> <<NameA>>]
    /\ ret = "None"
    /\ hist = HistInit

NextPhones ==
    \/ \E value \in PhoneInputs : AddPhone(NameA, value)
    \/ \E value \in PhoneInputs : RemovePhone(NameA, value)
    \/ \E old_value, new_value \in PhoneInputs : EditPhone(NameA, old_value, new_value)
    \/ \E name \in {NameA, NameB} : \E value, replace_value \in PhoneArgs :
          HandlePhone(name, value, replace_value)

SpecPhones == InitPhones /\ [][NextPhones]_vars

----------------------------------------------------------------------------
(* The tags of a Note *)

\* the tags of the Note stored under id_
TagsOf(data, hp, id_) == hp[dict_get(data, id_)[1]].tags

SetTags(data, hp, id_, tags) == [hp EXCEPT ![dict_get(data, id_)[1]].tags = tags]

\* Note.add_tag(value) on the Note stored under id_
AddTag(id_, value) ==
    /\ dict_has(notebook, id_)
    /\ Len(TagsOf(notebook, heap, id_)) < MaxTags
    /\ call' = [op |-> "add_tag", args |-> <<id_, value>>]
    /\ LET r == Note_add_tag(TagsOf(notebook, heap, id_), value)
       IN ret' = r.ret /\ heap' = SetTags(notebook, heap, id_, r.tags)
    /\ UNCHANGED <<book, notebook, id_iter, last_id, disk, config, hist>>

\* Note.remove_tag(value) on the Note stored under id_
RemoveTag(id_, value) ==
    /\ dict_has(notebook, id_)
    /\ call' = [op |-> "remove_tag", args |-> <<id_, value>>]
    /\ LET r == Note_remove_tag(TagsOf(notebook, heap, id_), value)
       IN ret' = r.ret /\ heap' = SetTags(notebook, heap, id_, r.tags)
    /\ UNCHANGED <<book, notebook, id_iter, last_id, disk, config, hist>>

\* Note.replace_tag(old_value, new_value) on the Note stored under id_
ReplaceTag(id_, old_value, new_value) ==
    /\ dict_has(notebook, id_)
    /\ call' = [op |-> "replace_tag", args |-> <<id_, old_value, new_value>>]
    /\ LET r == Note_replace_tag(TagsOf(notebook, heap, id_), old_value, new_value)
       IN ret' = r.ret /\ heap' = SetTags(notebook, heap, id_, r.tags)
    /\ UNCHANGED <<book, notebook, id_iter, last_id, disk, config, hist>>

\* the tag command: handle_tag([note_id, value, replace_value], notebook)
HandleTag(note_id, value, replace_value) ==
    /\ value = None => replace_value = None
    /\ (dict_has(notebook, note_id) /\ value # None /\ replace_value = None)
          => Len(TagsOf(notebook, heap, note_id)) < MaxTags
    /\ call' = [op |-> "handle_tag", args |-> <<note_id, value, replace_value>>]
    /\ LET r == handle_tag(notebook, heap, note_id, value, replace_value)
       IN ret' = r.ret /\ heap' = r.heap
    /\ UNCHANGED <<book, notebook, id_iter, last_id, disk, config, hist>>

\* the first id a process issues once load_store has found no store
FirstId == StartCounter.id_iter

\* the state after the command new-note hi
FirstNote ==
    NoteBook_add_note(EmptyStore.notebook, Alloc(EmptyStore.heap, 1, Note_init(<<"h", "i">>)),
                      StartCounter.id_iter, 1)

InitTags ==
    /\ book = EmptyStore.book
    /\ notebook = FirstNote.data
    /\ heap = FirstNote.heap
    /\ id_iter = FirstNote.id_iter
    /\ last_id = FirstNote.last_id
    /\ disk = None
    /\ config = load_store_config(ConfigInit)
    /\ call = [op |-> "add_note", args |-> <<<<"h", "i">>>>]
    /\ ret = "None"
    /\ hist = [HistInit EXCEPT
                 !.idLog = <<FirstId>>,
                 !.issued = {FirstId},
                 !.lastIssued = Some(FirstId),
                 !.firstAfterLoad = Some(FirstId),
                 !.dirty = TRUE]

NextTags ==
    \/ \E value \in TagInputs : AddTag(FirstId, value)
    \/ \E value \in TagInputs : RemoveTag(FirstId, value)
    \/ \E old_value, new_value \in TagInputs : ReplaceTag(FirstId, old_value, new_value)
    \/ \E note_id \in {-1, FirstId, FirstId + 1} : \E value, replace_value \in TagArgs :
          HandleTag(note_id, value, replace_value)

SpecTags == InitTags /\ [][NextTags]_vars

----------------------------------------------------------------------------
(* Claims about the note ids *)

\* C1: within one process every id add_note assigns is greater than every id
\* assigned before it, and is the id issued last plus one, so that the id of a
\* deleted note is never assigned again.
C1_IdsIncrease ==
    /\ \A i, j \in 1..Len(hist.idLog) : i < j => hist.idLog[i] < hist.idLog[j]
    /\ \A i \in 1..(Len(hist.idLog) - 1) : hist.idLog[i + 1] = hist.idLog[i] + 1
    /\ \A k \in dict_keys(notebook) : k < id_iter

\* a note was deleted and a new note was added after it
C1_Witness ==
    /\ call.op = "add_note"
    /\ ret = "None"
    /\ \E i \in 1..(Len(hist.idLog) - 1) : hist.idLog[i] \notin dict_keys(notebook)

\* C2: after save_store and load_store the first note added gets the id that
\* was issued last before the save, plus one (stated for histories in which
\* every issued id was saved before the next load).
C2_FirstIdContinues ==
    (/\ ~hist.lost
     /\ hist.loadedLast # None
     /\ hist.firstAfterLoad # None)
    => hist.firstAfterLoad[1] = hist.loadedLast[1] + 1

----------------------------------------------------------------------------
(* Claims about the address book and the phones of a Record *)

\* C4: rename_record(name, new_name), for a key name and a valid new_name,
\* puts the renamed record under new_name at the position name had and leaves
\* every other entry, and the order, as they were.
C4_RenameKeepsPlace ==
    [][\A name, new_name \in NameInputs :
          (/\ call' = [op |-> "rename_record", args |-> <<name, new_name>>]
           /\ dict_has(book, name)
           /\ Name_valid(new_name))
          => /\ ret' = "None"
             /\ Len(book') = Len(book)
             /\ \A i \in 1..Len(book) :
                   book'[i] = IF book[i].key = name
                              THEN [key |-> new_name,
                                    val |-> [book[i].val EXCEPT !.name = new_name]]
                              ELSE book[i]]_vars

\* C5: after any add_record of a new Record, delete_record or rename_record,
\* failed or not, every key of the AddressBook maps to a Record of that name.
C5_KeyIsName ==
    /\ \A i \in 1..Len(book) : book[i].key = book[i].val.name
    /\ \A i, j \in 1..Len(book) : book[i].key = book[j].key => i = j

\* a record was renamed in a book that holds other records
C5_Witness ==
    /\ call.op = "rename_record"
    /\ ret = "None"
    /\ call.args[1] # call.args[2]
    /\ dict_has(book, call.args[2])
    /\ Len(book) >= 2

\* C6: no Record holds two phones of equal value.
C6_NoDuplicatePhones ==
    \A e \in 1..Len(book) :
        \A i, j \in 1..Len(book[e].val.phones) :
            book[e].val.phones[i] = book[e].val.phones[j] => i = j

\* C7: add_phone(value) returns False and changes nothing when an equal phone
\* is present, and appends a valid value and returns True when none is; called
\* twice with one valid phone on an empty record it leaves one phone.
C7_AddPhone ==
    [][\A value \in PhoneInputs :
          call' = [op |-> "add_phone", args |-> <<NameA, value>>]
          => LET old == PhonesOf(book, NameA)
                 new == PhonesOf(book', NameA)
             IN /\ (\E i \in 1..Len(old) : old[i] = value)
                      => ret' = "False" /\ new = old
                /\ (Phone_valid(value) /\ \A i \in 1..Len(old) : old[i] # value)
                      => ret' = "True" /\ new = old \o <<value>>
                /\ (call = call' /\ ret = "True" /\ Len(old) = 1)
                      => ret' = "False" /\ new = <<value>>]_vars

\* the second of two calls with the same phone on an empty record
C7_Witness ==
    /\ call.op = "add_phone"
    /\ ret = "False"
    /\ PhonesOf(book, NameA) = <<call.args[2]>>

\* C8: edit_phone(old, new) puts Phone(new) where the first phone equal to old
\* was and changes nothing else; it fails with ValueError when old is absent and
\* with InvalidPhoneFormatError when new is invalid (the format error when both
\* hold), and a failed call leaves the list as it was.
C8_EditPhone ==
    [][\A old_value, new_value \in PhoneInputs :
          call' = [op |-> "edit_phone", args |-> <<NameA, old_value, new_value>>]
          => LET old == PhonesOf(book, NameA)
                 new == PhonesOf(book', NameA)
                 present == \E i \in 1..Len(old) : old[i] = old_value
             IN /\ (present /\ Phone_valid(new_value))
                      => /\ ret' = "None"
                         /\ Len(new) = Len(old)
                         /\ \A i \in 1..Len(old) :
                               new[i] = IF old[i] = old_value
                                           /\ \A j \in 1..(i - 1) : old[j] # old_value
                                        THEN new_value
                                        ELSE old[i]
                /\ (~present \/ ~Phone_valid(new_value))
                      => /\ new = old
                         /\ ret' \in {"ValueError", "InvalidPhoneFormatError"}
                /\ ret' = "ValueError" => ~present
                /\ ret' = "InvalidPhoneFormatError" => ~Phone_valid(new_value)
                /\ (~present /\ Phone_valid(new_value)) => ret' = "ValueError"
                /\ ~Phone_valid(new_value) => ret' = "InvalidPhoneFormatError"]_vars

\* the first of two equal phones was replaced, behind another phone
C8_Witness ==
    /\ call.op = "edit_phone"
    /\ ret = "None"
    /\ call.args[2] # call.args[3]
    /\ LET phones == PhonesOf(book, NameA)
       IN /\ Len(phones) = 3
          /\ phones[2] = call.args[3]
          /\ phones[3] = call.args[2]

----------------------------------------------------------------------------
(* Claims about the tags of a Note *)

\* C9: add_tag(value) returns False and changes nothing when the list holds a
\* tag equal to value once value is stripped; otherwise a valid value is
\* appended, stripped, and True is returned.
C9_AddTag ==
    [][\A value \in TagInputs :
          call' = [op |-> "add_tag", args |-> <<FirstId, value>>]
          => LET old == TagsOf(notebook, heap, FirstId)
                 new == TagsOf(notebook', heap', FirstId)
                 present == \E i \in 1..Len(old) : old[i].value = str_strip(value)
             IN /\ present => ret' = "False" /\ new = old
                /\ (~present /\ Tag_valid(str_strip(value)))
                      => /\ ret' = "True"
                         /\ new = old \o <<[cls |-> "Tag", value |-> str_strip(value)]>>]_vars

\* C10: no Note holds two tags of the same stripped value.
C10_NoDuplicateTags ==
    \A ref \in DOMAIN heap :
        \A i, j \in 1..Len(heap[ref].tags) :
            str_strip(heap[ref].tags[i].value) = str_strip(heap[ref].tags[j].value) => i = j

----------------------------------------------------------------------------
(* Birthdays: set_birthday and the birthdays command *)

\* the texts given to set_birthday: 29.02.2000, 28.02.1990, 01.03.1995,
\* 02.03.2001, 31.12.1999, then a day that does not exist (30.02.2000), a
\* two-digit year (1.3.95) and a text that is no date
BirthdayInputs ==
    {<<"2", "9", ".", "0", "2", ".", "2", "0", "0", "0">>,
     <<"2", "8", ".", "0", "2", ".", "1", "9", "9", "0">>,
     <<"0", "1", ".", "0", "3", ".", "1", "9", "9", "5">>,
     <<"0", "2", ".", "0", "3", ".", "2", "0", "0", "1">>,
     <<"3", "1", ".", "1", "2", ".", "1", "9", "9", "9">>,
     <<"3", "0", ".", "0", "2", ".", "2", "0", "0", "0">>,
     <<"1", ".", "3", ".", "9", "5">>,
     <<"s", "o", "o", "n">>}

\* the days date.today() returns
TodayInputs ==
    {date(2021, 2, 28), date(2023, 2, 28), date(2023, 3, 2), date(2023, 12, 31),
     date(2024, 2, 29), date(2024, 3, 1)}

\* the argument of the birthdays command
DaysInputs == {-1, 0, 1, 2, 60, 366}

\* the Record stored under name
RecordOf(data, name) == data[dict_index(data, name)].val

SetRecord(data, name, rec) == [data EXCEPT ![dict_index(data, name)].val = rec]

\* Record.set_birthday(value) on the Record stored under name
SetBirthday(name, value) ==
    /\ dict_has(book, name)
    /\ call' = [op |-> "set_birthday", args |-> <<name, value>>]
    /\ LET r == Record_set_birthday(RecordOf(book, name), value)
       IN ret' = r.ret /\ book' = SetRecord(book, name, r.rec)
    /\ UNCHANGED <<notebook, heap, id_iter, last_id, disk, config, hist>>

\* AddressBook.get_upcoming_birthdays(days), called on the day `today`
UpcomingBirthdays(today, days) ==
    /\ call' = [op |-> "get_upcoming_birthdays", args |-> <<today, days>>]
    /\ ret' = AddressBook_get_upcoming_birthdays(book, today, days)
    /\ UNCHANGED <<progVars, hist>>

\* the state after the commands new-record A, new-record B, new-record C
InitBirthdays ==
    /\ book = AddressBook_add_record(AddressBook_add_record(AddressBook_add_record(
                  EmptyStore.book, Record_init(NameA)), Record_init(NameB)), Record_init(NameC))
    /\ notebook = EmptyStore.notebook
    /\ heap = EmptyStore.heap
    /\ id_iter = StartCounter.id_iter
    /\ last_id = StartCounter.last_id
    /\ disk = None
    /\ config = load_store_config(ConfigInit)
    /\ call = [op |-> "new_record", args |-> <<NameC>>]
    /\ ret = "None"
    /\ hist = HistInit

NextBirthdays ==
    \/ \E name \in {NameA, NameB, NameC} : \E value \in BirthdayInputs : SetBirthday(name, value)
    \/ \E today \in TodayInputs : \E days \in DaysInputs : UpcomingBirthdays(today, days)

SpecBirthdays == InitBirthdays /\ [][NextBirthdays]_vars

----------------------------------------------------------------------------
(* Claims about get_upcoming_birthdays *)

\* C11: for a birthday on 29 February and a today in a year that is no leap
\* year, the congratulation date in today's year is 1 March of that year: an
\* entry dated in today's year is dated 1 March, and with days = 366 the
\* record has such an entry whenever 1 March is not before today.  The
\* birthday 29.02.2000 on 28.02.2021 with days = 2 gives 01.03.2021 and
\* wait_days_count = 1.
C11_Feb29NonLeap ==
    call.op = "get_upcoming_birthdays" =>
        LET today == call.args[1]
            days == call.args[2]
            feb29(rec) == rec.birthday # None /\ rec.birthday[1].month = 2
                          /\ rec.birthday[1].day = 29
            mar1 == date(today.year, 3, 1)
        IN /\ ret.exc = "None"
           /\ \A i \in 1..Len(ret.list) :
                 (/\ feb29(ret.list[i].record)
                  /\ ~is_leap_year(today.year)
                  /\ ret.list[i].congratulation_date.year = today.year)
                 => ret.list[i].congratulation_date = mar1
           /\ \A j \in 1..Len(book) :
                 (/\ feb29(book[j].val)
                  /\ ~is_leap_year(today.year)
                  /\ ~date_lt(mar1, today)
                  /\ days = 366)
                 => \E i \in 1..Len(ret.list) :
                       /\ ret.list[i].record = book[j].val
                       /\ ret.list[i].congratulation_date = mar1
           /\ \A j \in 1..Len(book) :
                 (/\ book[j].val.birthday = Some(date(2000, 2, 29))
                  /\ today = date(2021, 2, 28)
                  /\ days = 2)
                 => \E i \in 1..Len(ret.list) :
                       /\ ret.list[i].record = book[j].val
                       /\ ret.list[i].congratulation_date = date(2021, 3, 1)
                       /\ ret.list[i].wait_days_count = 1

\* the birthdays of the next 2 days were listed on 28.02.2021 for a book that
\* holds a record born on 29.02.2000
C11_Witness ==
    /\ call.op = "get_upcoming_birthdays"
    /\ call.args = <<date(2021, 2, 28), 2>>
    /\ \E i \in 1..Len(ret.list) :
          /\ ret.list[i].record.birthday = Some(date(2000, 2, 29))
          /\ ret.list[i].wait_days_count = 1

\* C12: an entry is dated in the next year exactly when this year's nominal
\* date is before today; a birthday that falls on today is listed with
\* wait_days_count = 0; a 29 February birthday moved to the next year is dated
\* 29 February when the next year is a leap year and 1 March when it is not.
C12_RollForward ==
    call.op = "get_upcoming_birthdays" =>
        LET today == call.args[1]
            days == call.args[2]
            feb29(bd) == bd.month = 2 /\ bd.day = 29
            nominal(bd) == IF feb29(bd) /\ ~is_leap_year(today.year)
                           THEN date(today.year, 3, 1)
                           ELSE date(today.year, bd.month, bd.day)
        IN /\ \A i \in 1..Len(ret.list) :
                 LET e == ret.list[i]
                     bd == e.record.birthday[1]
                     cd == e.congratulation_date
                 IN /\ cd.year \in {today.year, today.year + 1}
                    /\ cd.year = today.year + 1 <=> date_lt(nominal(bd), today)
                    /\ cd.year = today.year => cd = nominal(bd)
                    /\ (cd.year = today.year + 1 /\ ~feb29(bd))
                          => cd = date(today.year + 1, bd.month, bd.day)
                    /\ (cd.year = today.year + 1 /\ feb29(bd))
                          => cd = IF is_leap_year(today.year + 1)
                                  THEN date(today.year + 1, 2, 29)
                                  ELSE date(today.year + 1, 3, 1)
           /\ \A j \in 1..Len(book) :
                 (/\ book[j].val.birthday # None
                  /\ days >= 0
                  /\ nominal(book[j].val.birthday[1]) = today)
                 => \E i \in 1..Len(ret.list) :
                       /\ ret.list[i].record = book[j].val
                       /\ ret.list[i].congratulation_date = today
                       /\ ret.list[i].wait_days_count = 0

\* on 02.03.2023 a 29 February birthday was moved to 29.02.2024, and a
\* birthday that falls on today was listed
C12_Witness ==
    /\ call.op = "get_upcoming_birthdays"
    /\ call.args[1] = date(2023, 3, 2)
    /\ \E i \in 1..Len(ret.list) :
          /\ ret.list[i].record.birthday = Some(date(2000, 2, 29))
          /\ ret.list[i].congratulation_date = date(2024, 2, 29)
    /\ \E i \in 1..Len(ret.list) : ret.list[i].wait_days_count = 0

\* C13: a record has an entry in the list, and one entry only, exactly when
\* it has a birthday and 0 <= wait_days_count <= days, wait_days_count being
\* the days from today to its congratulation date.
C13_Window ==
    call.op = "get_upcoming_birthdays" =>
        LET today == call.args[1]
            days == call.args[2]
            nominal(bd, year) == IF bd.month = 2 /\ bd.day = 29 /\ ~is_leap_year(year)
                                 THEN date(year, 3, 1)
                                 ELSE date(year, bd.month, bd.day)
            congrats(bd) == IF date_lt(nominal(bd, today.year), today)
                            THEN nominal(bd, today.year + 1)
                            ELSE nominal(bd, today.year)
            wait(bd) == date_toordinal(congrats(bd)) - date_toordinal(today)
            entries(rec) == {i \in 1..Len(ret.list) : ret.list[i].record = rec}
        IN /\ \A j \in 1..Len(book) :
                 LET rec == book[j].val
                 IN IF rec.birthday # None /\ 0 <= wait(rec.birthday[1])
                       /\ wait(rec.birthday[1]) <= days
                    THEN /\ Cardinality(entries(rec)) = 1
                         /\ \A i \in entries(rec) :
                               ret.list[i].wait_days_count = wait(rec.birthday[1])
                    ELSE entries(rec) = {}
           /\ \A i \in 1..Len(ret.list) :
                 \E j \in 1..Len(book) : book[j].val = ret.list[i].record

\* of three records one has no birthday, one has its birthday exactly `days`
\* away and is listed, one has it days + 1 away and is not
C13_Witness ==
    /\ call.op = "get_upcoming_birthdays"
    /\ call.args = <<date(2021, 2, 28), 1>>
    /\ Len(ret.list) = 1
    /\ ret.list[1].wait_days_count = 1
    /\ \E j \in 1..Len(book) : book[j].val.birthday = None
    /\ \E j \in 1..Len(book) : book[j].val.birthday = Some(date(2001, 3, 2))

\* C14: the list is in ascending order of congratulation_date, and entries of
\* one congratulation_date are in the order their records have in the book.
C14_Sorted ==
    call.op = "get_upcoming_birthdays" =>
        \A i, k \in 1..Len(ret.list) :
            i < k =>
                /\ ~date_lt(ret.list[k].congratulation_date, ret.list[i].congratulation_date)
                /\ ret.list[i].congratulation_date = ret.list[k].congratulation_date
                      => dict_index(book, ret.list[i].record.name)
                            < dict_index(book, ret.list[k].record.name)

\* the first record of the book is listed last, behind two records of one
\* congratulation date
C14_Witness ==
    /\ call.op = "get_upcoming_birthdays"
    /\ Len(ret.list) = 3
    /\ ret.list[1].congratulation_date = ret.list[2].congratulation_date
    /\ ret.list[3].record = book[1].val

\* C15: next_age is the year of congratulation_date minus the year of birth.
C15_NextAge ==
    call.op = "get_upcoming_birthdays" =>
        \A i \in 1..Len(ret.list) :
            ret.list[i].next_age
                = ret.list[i].congratulation_date.year - ret.list[i].record.birthday[1].year

\* one list holds a date of this year and a date moved to the next year
C15_Witness ==
    /\ call.op = "get_upcoming_birthdays"
    /\ \E i, k \in 1..Len(ret.list) :
          /\ ret.list[i].congratulation_date.year = call.args[1].year
          /\ ret.list[k].congratulation_date.year = call.args[1].year + 1
          /\ ret.list[k].next_age
                = call.args[1].year + 1 - ret.list[k].record.birthday[1].year

----------------------------------------------------------------------------
(* The store: records and notes are made, saved at exit and loaded at start *)

NextStore ==
    \/ \E name \in {NameA, NameB} : NewRecord(name)
    \/ AddPhone(NameA, Phone1)
    \/ AddNote(<<"h", "i">>)
    \/ AddTag(FirstId, <<"a", "b", "c">>)
    \/ SaveStore
    \/ LoadStore

SpecStore == InitStarted /\ [][NextStore]_vars

\* C16: a load_store that follows a save_store yields the state that was
\* saved: the same records in the same order with the same fields and phones,
\* the same notes under the same ids with the same bodies and tags, and a
\* counter that gives the next note the id the saved session would have given.
C16_RoundTrip ==
    [][(call.op = "save_store" /\ call'.op = "load_store")
          => /\ book' = book
             /\ notebook' = notebook
             /\ heap' = heap
             /\ id_iter' = id_iter]_vars

----------------------------------------------------------------------------
(* The fields of a Record and of a Note: every setter, with values it rejects *)

\* Record.set_address(value) on the Record stored under name
SetAddress(name, value) ==
    /\ dict_has(book, name)
    /\ call' = [op |-> "set_address", args |-> <<name, value>>]
    /\ LET r == Record_set_address(RecordOf(book, name), value)
       IN ret' = r.ret /\ book' = SetRecord(book, name, r.rec)
    /\ UNCHANGED <<notebook, heap, id_iter, last_id, disk, config, hist>>

\* Record.set_email(value) on the Record stored under name
SetEmail(name, value) ==
    /\ dict_has(book, name)
    /\ call' = [op |-> "set_email", args |-> <<name, value>>]
    /\ LET r == Record_set_email(RecordOf(book, name), value)
       IN ret' = r.ret /\ book' = SetRecord(book, name, r.rec)
    /\ UNCHANGED <<notebook, heap, id_iter, last_id, disk, config, hist>>

\* NoteBook.update_note(id_, body)
UpdateNote(id_, body) ==
    /\ call' = [op |-> "update_note", args |-> <<id_, body>>]
    /\ LET r == NoteBook_update_note(notebook, heap, id_, body)
       IN ret' = r.ret /\ heap' = r.heap
    /\ UNCHANGED <<book, notebook, id_iter, last_id, disk, config, hist>>

\* the state after the commands new-note hi and new-record A
InitFields ==
    /\ book = AddressBook_add_record(EmptyStore.book, Record_init(NameA))
    /\ notebook = FirstNote.data
    /\ heap = FirstNote.heap
    /\ id_iter = FirstNote.id_iter
    /\ last_id = FirstNote.last_id
    /\ disk = None
    /\ config = load_store_config(ConfigInit)
    /\ call = [op |-> "new_record", args |-> <<NameA>>]
    /\ ret = "None"
    /\ hist = [HistInit EXCEPT
                 !.idLog = <<FirstId>>,
                 !.issued = {FirstId},
                 !.lastIssued = Some(FirstId),
                 !.firstAfterLoad = Some(FirstId),
                 !.dirty = TRUE]

\* the texts given to set_address: one that is held, one that is too long
AddressInputs == {<<"K", "y", "i", "v">>, Rep("a", ADDRESS_MAX_LEN + 1)}

\* the texts given to set_email: a@b.co, the same before a newline, and three
\* that the pattern rejects: a@b.c, a@.co, a b@c.de
EmailInputs ==
    {<<"a", "@", "b", ".", "c", "o">>,
     <<"a", "@", "b", ".", "c", "o", "\n">>,
     <<"a", "@", "b", ".", "c">>,
     <<"a", "@", ".", "c", "o">>,
     <<"a", " ", "b", "@", "c", ".", "d", "e">>}

NextFields ==
    \/ \E value \in {<<"0", "1", ".", "0", "3", ".", "1", "9", "9", "5">>,
                     <<"3", "0", ".", "0", "2", ".", "2", "0", "0", "0">>} :
          SetBirthday(NameA, value)
    \/ \E value \in AddressInputs : SetAddress(NameA, value)
    \/ \E value \in EmailInputs : SetEmail(NameA, value)
    \/ \E value \in {Phone1, Rep("1", PHONE_LEN)} : AddPhone(NameA, value)
    \/ \E replace_value \in {Phone2, Rep("1", PHONE_LEN)} :
          HandlePhone(NameA, Some(Phone1), Some(replace_value))
    \/ \E new_name \in {NameB, Rep("n", NAME_MAX_LEN + 1)} : RenameRecord(NameA, new_name)
    \/ \E value \in {<<"a", "b", "c">>, <<"a", "!", "c">>} : AddTag(FirstId, value)
    \/ \E replace_value \in {<<"d", "e", "f">>, <<"d", "e">>} :
          HandleTag(FirstId, Some(<<"a", "b", "c">>), Some(replace_value))
    \/ \E body \in BodyInputs \cup {<<"y", "o">>} : UpdateNote(FirstId, body)

SpecFields == InitFields /\ [][NextFields]_vars

\* C17: a mutation rejected with a format error leaves the AddressBook, the
\* NoteBook and every Record and Note as they were.
C17_RejectedKeepsState ==
    [][ret' \in {"InvalidDateFormatError", "InvalidAddressFormatError",
                 "InvalidEmailFormatError", "InvalidPhoneFormatError",
                 "InvalidNameFormatError", "InvalidTagFormatError",
                 "InvalidBodyFormatError"}
          => UNCHANGED progVars]_vars

\* set_value was rejected on a Tag of a Note, while the Record holds a
\* birthday, an address, an email and a phone
C17_Witness ==
    /\ call.op = "handle_tag"
    /\ ret = "InvalidTagFormatError"
    /\ TagsOf(notebook, heap, FirstId) # <<>>
    /\ book[1].val.birthday # None
    /\ book[1].val.address # None
    /\ book[1].val.email # None
    /\ book[1].val.phones # <<>>

----------------------------------------------------------------------------
(* Claims about calls that fail *)

\* C18: rename_record(name, new_name) fails with KeyError when name is no key
\* of the AddressBook, and with InvalidNameFormatError when name is a key and
\* new_name is longer than 20 characters; either way the keys, their order and
\* the records are as before.
C18_RenameFails ==
    [][call'.op = "rename_record"
          => LET name == call'.args[1]
                 new_name == call'.args[2]
             IN /\ ~dict_has(book, name) => (ret' = "KeyError" /\ book' = book)
                /\ (dict_has(book, name) /\ Len(new_name) > 20)
                      => (ret' = "InvalidNameFormatError" /\ book' = book)]_vars

\* a rename to a name of 21 characters was refused in a book of two records
C18_Witness ==
    /\ call.op = "rename_record"
    /\ Len(call.args[2]) = 21
    /\ ret = "InvalidNameFormatError"
    /\ Len(book) >= 2

----------------------------------------------------------------------------
(* The NoteBook: add_note, delete_note, update_note, get_note *)

\* NoteBook.get_note(id_): the Note found (its reference), or None
GetNote(id_) ==
    /\ call' = [op |-> "get_note", args |-> <<id_>>]
    /\ ret' = IF NoteBook_get_note(notebook, id_) = None THEN "None" ELSE "Note"
    /\ UNCHANGED <<progVars, hist>>

\* NoteBook.add_note(note) for the Note that get_note(id_) returns, an object
\* the NoteBook holds already
AddNoteAgain(id_) ==
    /\ NoteBook_get_note(notebook, id_) # None
    /\ id_iter <= MaxId
    /\ call' = [op |-> "add_note", args |-> <<"get_note", id_>>]
    /\ LET ref == NoteBook_get_note(notebook, id_)[1]
           r == NoteBook_add_note(notebook, heap, id_iter, ref)
           id == r.heap[ref].id[1]
       IN /\ notebook' = r.data
          /\ heap' = r.heap
          /\ id_iter' = r.id_iter
          /\ last_id' = r.last_id
          /\ ret' = "None"
          /\ hist' = [hist EXCEPT
                !.idLog = Append(@, id),
                !.issued = @ \cup {id},
                !.lastIssued = Some(id),
                !.firstAfterLoad = IF @ = None THEN Some(id) ELSE @,
                !.dirty = TRUE,
                !.clashKey = @ \/ dict_has(notebook, id),
                !.clashIssued = @ \/ id \in hist.issued]
          /\ UNCHANGED <<book, disk, config>>

NextNotes ==
    \/ \E body \in BodyInputs : AddNote(body)
    \/ \E id_ \in IdInputs : AddNoteAgain(id_)
    \/ \E id_ \in IdInputs : DeleteNote(id_)
    \/ \E id_ \in IdInputs : \E body \in {<<"y", "o">>, Rep("x", BODY_MAX_LEN + 1)} :
          UpdateNote(id_, body)
    \/ \E id_ \in IdInputs : GetNote(id_)

SpecNotes == InitStarted /\ [][NextNotes]_vars

\* C19 as stated: delete_note(id), update_note(id, body) and get_note(id) fail
\* with KeyError when id is no key of the NoteBook, and leave the NoteBook and
\* its notes as they were.
C19_AbsentIdFails ==
    [][(call'.op \in {"delete_note", "update_note", "get_note"}
        /\ ~dict_has(notebook, call'.args[1]))
          => (ret' = "KeyError" /\ UNCHANGED <<notebook, heap>>)]_vars

\* C19 amended: for an id that is no key of the NoteBook, delete_note and
\* update_note fail with KeyError and get_note returns None; each leaves the
\* NoteBook and its notes as they were.
C19_AbsentId ==
    [][(call'.op \in {"delete_note", "update_note", "get_note"}
        /\ ~dict_has(notebook, call'.args[1]))
          => /\ ret' = IF call'.op = "get_note" THEN "None" ELSE "KeyError"
             /\ UNCHANGED <<notebook, heap>>]_vars

\* update_note was called with an id that is no key of a NoteBook that holds
\* notes
C19_Witness ==
    /\ call.op = "update_note"
    /\ ~dict_has(notebook, call.args[1])
    /\ ret = "KeyError"
    /\ notebook # <<>>

\* C20: every key of the NoteBook maps to a Note whose id is that key, after
\* any add_note, delete_note and update_note, also when add_note is given a
\* Note the NoteBook holds already.
C20_KeyIsId ==
    \A i \in 1..Len(notebook) : heap[notebook[i].val].id = Some(notebook[i].key)

----------------------------------------------------------------------------
(* Claims about records that exist already *)

\* C21: the new-record command given the name of an existing record reports
\* RecordExistsError and leaves the AddressBook as it was; add_record given a
\* Record of an existing name puts the new Record where the old one was and
\* leaves the other entries and the order as they were.
C21_NewRecordKeeps ==
    [][/\ (call'.op = "new_record" /\ dict_has(book, call'.args[1]))
             => (ret' = "RecordExistsError" /\ book' = book)
       /\ (call'.op = "add_record" /\ dict_has(book, call'.args[1]))
             => /\ ret' = "None"
                /\ Len(book') = Len(book)
                /\ \A i \in 1..Len(book) :
                      book'[i] = IF book[i].key = call'.args[1]
                                 THEN [key |-> call'.args[1],
                                       val |-> [name |-> call'.args[1], phones |-> <<>>,
                                                birthday |-> None, address |-> None,
                                                email |-> None, photo |-> None]]
                                 ELSE book[i]]_vars

\* add_record has replaced the first of three records, which held a phone, by
\* a new Record
C21_Witness ==
    /\ call.op = "add_record"
    /\ Len(book) = 3
    /\ book[1].key = call.args[1]
    /\ book[1].val.phones = <<>>
    /\ book[2].val.phones # <<>>
    /\ book[3].val.phones # <<>>

\* C26: rename_record(name, new_name), for a key name and a valid new_name,
\* also one that is the key of another record, leaves the number of records
\* as it was, and every other record under its key at its relative position.
C26_RenameLosesNone ==
    [][(/\ call'.op = "rename_record"
        /\ dict_has(book, call'.args[1])
        /\ Len(call'.args[2]) <= 20)
          => /\ Len(book') = Len(book)
             /\ \A i \in 1..Len(book) :
                   book[i].key # call'.args[1] => book'[i] = book[i]]_vars

----------------------------------------------------------------------------
(* Claims about the values of fields *)

\* C24: Phone(value), which add_phone builds for a value the record does not
\* hold, succeeds and stores value as it is exactly when value is ten
\* characters, each one of 0..9, the first one 0; for any other value it fails
\* with InvalidPhoneFormatError.
C24_PhoneFormat ==
    [][(call'.op = "add_phone" /\ ~list_contains(PhonesOf(book, NameA), call'.args[2]))
          => LET value == call'.args[2]
                 ok == /\ Len(value) = 10
                       /\ \A i \in 1..Len(value) :
                             value[i] \in {"0", "1", "2", "3", "4", "5", "6", "7", "8", "9"}
                       /\ value[1] = "0"
             IN IF ok
                THEN ret' = "True" /\ PhonesOf(book', NameA) = Append(PhonesOf(book, NameA), value)
                ELSE ret' = "InvalidPhoneFormatError" /\ book' = book]_vars

\* a value of ten digits, one of them not ASCII, was refused by a record that
\* holds a phone
C24_Witness ==
    /\ call.op = "add_phone"
    /\ \E i \in 1..Len(call.args[2]) : call.args[2][i] \in NonAsciiDigits
    /\ ret = "InvalidPhoneFormatError"
    /\ PhonesOf(book, NameA) # <<>>

\* C28: the congratulation date of an entry is today or later and at most 366
\* days after today, wait_days_count being that distance; with days >= 366
\* every record that has a birthday has one entry, and one only.
C28_WithinYear ==
    call.op = "get_upcoming_birthdays" =>
        /\ \A i \in 1..Len(ret.list) :
              /\ ret.list[i].wait_days_count
                    = date_toordinal(ret.list[i].congratulation_date)
                         - date_toordinal(call.args[1])
              /\ ret.list[i].wait_days_count \in 0..366
        /\ call.args[2] >= 366 =>
              /\ \A j \in 1..Len(book) :
                    Cardinality({i \in 1..Len(ret.list) : ret.list[i].record = book[j].val})
                       = IF book[j].val.birthday = None THEN 0 ELSE 1
              /\ Len(ret.list)
                    = Cardinality({j \in 1..Len(book) : book[j].val.birthday # None})

\* with days = 366 three records were listed, one of them 365 days ahead and
\* one on today
C28_Witness ==
    /\ call.op = "get_upcoming_birthdays"
    /\ call.args[2] = 366
    /\ Len(ret.list) = 3
    /\ ret.list[1].wait_days_count = 0
    /\ ret.list[3].wait_days_count = 365

----------------------------------------------------------------------------
(* Views: a Birthday is rendered, records are searched *)

\* str(Birthday(value)), on a platform whose %Y pads the year or does not
RenderBirthday(value, pad) ==
    /\ Birthday_valid(value)
    /\ call' = [op |-> "Birthday_str", args |-> <<value>>]
    /\ ret' = [text |-> Birthday_str(Birthday_init(value), pad)]
    /\ UNCHANGED <<progVars, hist>>

\* AddressBook.find(search_value)
FindRecords(search_value, pad) ==
    /\ call' = [op |-> "find", args |-> <<search_value>>]
    /\ ret' = [list |-> AddressBook_find(book, search_value, pad)]
    /\ UNCHANGED <<progVars, hist>>

\* birthdays 01.03.1995 and 01.03.0995 for the records A and B, an address
\* for B, an email and a phone for C; the keywords are texts of a name, a
\* year, an address, an email and a phone, the empty text and a text that
\* nothing holds
NextView ==
    \/ \E name \in {NameA, NameB} :
          \E value \in {<<"0", "1", ".", "0", "3", ".", "1", "9", "9", "5">>,
                        <<"0", "1", ".", "0", "3", ".", "0", "9", "9", "5">>} :
             SetBirthday(name, value)
    \/ SetAddress(NameB, <<"K", "y", "i", "v">>)
    \/ SetEmail(NameC, <<"a", "@", "B", ".", "c", "o">>)
    \/ AddPhone(NameC, Phone1)
    \/ \E value \in BirthdayInputs \cup {<<"0", "1", ".", "0", "3", ".", "0", "9", "9", "5">>,
                                         <<"3", "1", ".", "1", "2", ".", "0", "0", "0", "1">>} :
          \E pad \in BOOLEAN : RenderBirthday(value, pad)
    \/ \E search_value \in {<<"a">>, <<"B">>, <<"1", "9", "9", "5">>, <<"0", "9", "9", "5">>,
                            <<"K", "Y">>, <<"@", "b">>, <<"0", "1", "1">>, <<>>, <<"z", "z">>} :
          \E pad \in BOOLEAN : FindRecords(search_value, pad)

SpecView == InitBirthdays /\ [][NextView]_vars

\* C25: for a text s written as DD.MM.YYYY that is a date, the Birthday built
\* from s is rendered as s.
C25_BirthdayRoundTrip ==
    call.op = "Birthday_str" =>
        LET s == call.args[1]
        IN (/\ Len(s) = 10
            /\ s[3] = "."
            /\ s[6] = "."
            /\ \A i \in {1, 2, 4, 5, 7, 8, 9, 10} : s[i] \in AsciiDigits)
           => ret.text = s

\* C22: find(keyword) returns the records for which keyword, both sides in
\* lower case, is part of the name, of the birthday written as DD.MM.YYYY, of
\* the address, of the email or of a phone; they come in the order of the
\* AddressBook, each once, and the AddressBook is as it was.
C22_FindRecords ==
    [][call'.op = "find"
          => LET keyword == str_lower(call'.args[1])
                 part(text) == str_in(keyword, str_lower(text))
                 matches(item) ==
                     \/ part(item.val.name)
                     \/ item.val.birthday # None
                           /\ part(Birthday_str(item.val.birthday[1], TRUE))
                     \/ item.val.address # None /\ part(item.val.address[1])
                     \/ item.val.email # None /\ part(item.val.email[1])
                     \/ \E k \in 1..Len(item.val.phones) : part(item.val.phones[k])
                 expected == SelectSeq(book, matches)
             IN /\ book' = book
                /\ Len(ret'.list) = Len(expected)
                /\ \A i \in 1..Len(expected) : ret'.list[i] = expected[i].val]_vars

----------------------------------------------------------------------------
(* Notes with tags: Note(body), Note(body, tags), add_tag, find *)

\* Note(body, tags), then NoteBook.add_note(note)
NewNoteTags(body, tags) ==
    /\ id_iter <= MaxId
    /\ Body_valid(body)
    /\ call' = [op |-> "add_note", args |-> <<body, tags>>]
    /\ LET ref == NewRef(heap)
           r == NoteBook_add_note(notebook, Alloc(heap, ref, Note_init_tags(body, tags)),
                                  id_iter, ref)
           id == r.heap[ref].id[1]
       IN /\ notebook' = r.data
          /\ heap' = r.heap
          /\ id_iter' = r.id_iter
          /\ last_id' = r.last_id
          /\ ret' = "None"
          /\ hist' = [hist EXCEPT
                !.idLog = Append(@, id),
                !.issued = @ \cup {id},
                !.lastIssued = Some(id),
                !.firstAfterLoad = IF @ = None THEN Some(id) ELSE @,
                !.dirty = TRUE,
                !.clashKey = @ \/ dict_has(notebook, id),
                !.clashIssued = @ \/ id \in hist.issued]
          /\ UNCHANGED <<book, disk, config>>

\* NoteBook.find(search_value)
FindNotes(search_value) ==
    /\ call' = [op |-> "find_notes", args |-> <<search_value>>]
    /\ ret' = NoteBook_find(notebook, heap, search_value, 1, <<>>)
    /\ UNCHANGED <<progVars, hist>>

NextNoteFind ==
    \/ \E body \in {<<"h", "i">>, <<"Y", "o">>} : AddNote(body)
    \/ \E tags \in {<<<<"a", "b", "c">>>>, <<<<"x">>, <<" ", "d", "e", "f">>>>} :
          NewNoteTags(<<"h", "i">>, tags)
    \/ \E value \in {<<"a", "b", "c">>, <<"D", "e", "f">>} : AddTag(FirstId, value)
    \/ \E search_value \in {<<"H">>, <<"y", "O">>, <<"a", "b">>, <<"d", "E", "F">>,
                            <<>>, <<"z", "z">>} :
          FindNotes(search_value)

SpecNoteFind == InitStarted /\ [][NextNoteFind]_vars

\* C27: every element of the tag list of every Note of the NoteBook is a Tag
\* whose value is trimmed, 3 to 30 characters long and made of the allowed
\* characters.
C27_TagsValidated ==
    \A i \in 1..Len(notebook) :
        \A k \in 1..Len(heap[notebook[i].val].tags) :
            LET tag == heap[notebook[i].val].tags[k]
            IN /\ tag.cls = "Tag"
               /\ Len(tag.value) >= 3
               /\ Len(tag.value) <= 30
               /\ tag.value[1] \notin Whitespace
               /\ tag.value[Len(tag.value)] \notin Whitespace
               /\ \A j \in 1..Len(tag.value) : tag.value[j] \in TagChars

\* C23: find(keyword) returns, under its own id, each note for which keyword,
\* both sides in lower case, is part of the body or of the value of a tag, and
\* no other note, in the order of the NoteBook, and leaves the NoteBook and
\* its notes as they were.
C23_FindNotes ==
    [][call'.op = "find_notes"
          => LET keyword == str_lower(call'.args[1])
                 part(text) == str_in(keyword, str_lower(text))
                 matches(item) ==
                     \/ part(heap[item.val].body)
                     \/ \E k \in 1..Len(heap[item.val].tags) :
                           part(heap[item.val].tags[k].value)
                 expected == SelectSeq(notebook, matches)
             IN /\ UNCHANGED <<notebook, heap>>
                /\ ret'.exc = "None"
                /\ Len(ret'.notes) = Len(expected)
                /\ \A i \in 1..Len(expected) :
                      /\ ret'.notes[i].val = expected[i].val
                      /\ Some(ret'.notes[i].key) = heap[expected[i].val].id]_vars

----------------------------------------------------------------------------
(* core.py: the command handlers under input_error *)

\* input_error: TRUE for the exceptions its except clause names, which it
\* turns into the "ERROR: ... Try again." string.  InvalidPropertyFormatError is
\* the class of contacts.py; the class of that name in notes.py, the base of
\* InvalidBodyFormatError and InvalidTagFormatError, is another class
input_error(exc) ==
    exc \in {"FileNotFoundError", "InvalidCmdArgsCountError", "InvalidCmdArgTypeError",
             "InvalidPhoneFormatError", "InvalidDateFormatError", "InvalidNameFormatError",
             "InvalidAddressFormatError", "InvalidEmailFormatError", "FileAccessError",
             "InvalidPhotoFormatError", "RecordExistsError", "RecordNotExistsError",
             "NoteNotExistsError", "PhoneNotExistsError", "TagNotExistsError"}

\* handle_records(args, book) with args = [name, value]
handle_records(data, name, value) ==
    IF name = None
    THEN [book |-> data, ret |-> "records"]
    ELSE IF dict_get(data, name[1]) = None
    THEN [book |-> data, ret |-> "RecordNotExistsError"]
    ELSE IF value = None
    THEN [book |-> data, ret |-> "records"]
    ELSE IF value[1] = <<>>
    THEN [book |-> AddressBook_delete_record(data, name[1]), ret |-> "None"]
    ELSE IF ~Name_valid(value[1])
    THEN [book |-> data, ret |-> "InvalidNameFormatError"]
    ELSE [book |-> AddressBook_rename_record(data, name[1], value[1]), ret |-> "None"]

\* a plausible slip: the property is cleared before the new value is validated
handle_record_prop_unset(data, prop, name, value, loaded) ==
    IF dict_get(data, name) = None
    THEN [book |-> data, ret |-> "RecordNotExistsError"]
    ELSE LET rec == RecordOf(data, name)
             r == IF value = None THEN [rec |-> rec, ret |-> "view"]
                  ELSE IF value[1] = <<>>
                  THEN [rec |-> [rec EXCEPT ![prop] = None], ret |-> "None"]
                  ELSE IF prop = "birthday"
                  THEN Record_set_birthday([rec EXCEPT ![prop] = None], value[1])
                  ELSE IF prop = "address"
                  THEN Record_set_address([rec EXCEPT ![prop] = None], value[1])
                  ELSE IF prop = "email"
                  THEN Record_set_email([rec EXCEPT ![prop] = None], value[1])
                  ELSE IF loaded = "None"
                  THEN [rec |-> [rec EXCEPT !.photo = Some(value[1])], ret |-> "None"]
                  ELSE [rec |-> [rec EXCEPT ![prop] = None], ret |-> loaded]
         IN [book |-> SetRecord(data, name, r.rec), ret |-> r.ret]

\* handle_record_prop(prop, args, book) with args = [name, value].  loaded is
\* what Photo.set_value meets when it loads and converts the image at value:
\* "None" when it succeeds, else the exception raised before self.value is set
handle_record_prop(data, prop, name, value, loaded) ==
    IF dict_get(data, name) = None
    THEN [book |-> data, ret |-> "RecordNotExistsError"]
    ELSE LET rec == RecordOf(data, name)
             r == IF value = None THEN [rec |-> rec, ret |-> "view"]
                  ELSE IF value[1] = <<>>
                  THEN [rec |-> [rec EXCEPT ![prop] = None], ret |-> "None"]
                  ELSE IF prop = "birthday" THEN Record_set_birthday(rec, value[1])
                  ELSE IF prop = "address" THEN Record_set_address(rec, value[1])
                  ELSE IF prop = "email" THEN Record_set_email(rec, value[1])
                  ELSE IF loaded = "None"
                  THEN [rec |-> [rec EXCEPT !.photo = Some(value[1])], ret |-> "None"]
                  ELSE [rec |-> rec, ret |-> loaded]
         IN [book |-> SetRecord(data, name, r.rec), ret |-> r.ret]

\* handle_notes(args, notebook) with args = [id_, body]; id_ is the integer
\* its text denotes
handle_notes(data, hp, id_, body) ==
    IF id_ = None
    THEN [data |-> data, heap |-> hp, ret |-> "notes"]
    ELSE IF id_[1] < 0
    THEN [data |-> data, heap |-> hp, ret |-> "InvalidCmdArgTypeError"]
    ELSE IF NoteBook_get_note(data, id_[1]) = None
    THEN [data |-> data, heap |-> hp, ret |-> "NoteNotExistsError"]
    ELSE IF body = None
    THEN [data |-> data, heap |-> hp, ret |-> "notes"]
    ELSE IF body[1] = <<>>
    THEN [data |-> NoteBook_delete_note(data, id_[1]),
          heap |-> Collect(hp, NoteBook_delete_note(data, id_[1])), ret |-> "None"]
    ELSE LET r == NoteBook_update_note(data, hp, id_[1], body[1])
         IN [data |-> data, heap |-> r.heap, ret |-> r.ret]

HandleRecords(name, value) ==
    /\ call' = [op |-> "handle_records", args |-> <<name, value>>]
    /\ LET r == handle_records(book, name, value)
       IN ret' = r.ret /\ book' = r.book
    /\ UNCHANGED <<notebook, heap, id_iter, last_id, disk, config, hist>>

HandleRecordProp(prop, name, value, loaded) ==
    /\ call' = [op |-> "handle_record_prop", args |-> <<prop, name, value>>]
    /\ LET r == handle_record_prop(book, prop, name, value, loaded)
       IN ret' = r.ret /\ book' = r.book
    /\ UNCHANGED <<notebook, heap, id_iter, last_id, disk, config, hist>>

HandleNotes(id_, body) ==
    /\ call' = [op |-> "handle_notes", args |-> <<id_, body>>]
    /\ LET r == handle_notes(notebook, heap, id_, body)
       IN ret' = r.ret /\ notebook' = r.data /\ heap' = r.heap
    /\ UNCHANGED <<book, id_iter, last_id, disk, config, hist>>

NextHandlers ==
    \/ \E name \in {NameA, Rep("n", NAME_MAX_LEN + 1)} : NewRecord(name)
    \/ \E name \in {None, Some(NameA), Some(NameB)} :
       \E value \in {None, Some(<<>>), Some(Rep("n", NAME_MAX_LEN + 1))} :
          HandleRecords(name, value)
    \/ \E name \in {NameA, NameB} :
       \E value \in {None, Some(Phone1), Some(<<"1">>)} :
       \E replace_value \in {None, Some(<<>>), Some(<<"1">>)} :
          HandlePhone(name, value, replace_value)
    \/ \E name \in {NameA, NameB} :
       \E value \in {None, Some(<<>>), Some(<<"s", "o", "o", "n">>),
                     Some(<<"0", "1", ".", "0", "3", ".", "1", "9", "9", "5">>)} :
          HandleRecordProp("birthday", name, value, "None")
    \/ \E value \in {Some(<<"a", "@", "b", ".", "c", "o">>), Some(<<"a", "@", "b">>)} :
          HandleRecordProp("email", NameA, value, "None")
    \/ \E value \in {None, Some(Rep("a", ADDRESS_MAX_LEN + 1))} :
          HandleRecordProp("address", NameA, value, "None")
    \/ \E loaded \in {"None", "FileNotFoundError", "FileAccessError", "UnboundLocalError"} :
          HandleRecordProp("photo", NameA, Some(<<"a", ".", "j", "p", "g">>), loaded)
    \/ \E body \in BodyInputs : AddNote(body)
    \/ \E id_ \in {None, Some(-1), Some(FirstId), Some(MaxId + 1)} :
       \E body \in {None, Some(<<>>), Some(<<"y", "o">>), Some(Rep("x", BODY_MAX_LEN + 1))} :
          HandleNotes(id_, body)
    \/ \E note_id \in {-1, FirstId} :
       \E value \in {None, Some(<<"a", "b", "c">>), Some(<<"x">>)} :
       \E replace_value \in {None, Some(<<>>), Some(<<"!">>)} :
          HandleTag(note_id, value, replace_value)

SpecHandlers == InitStarted /\ [][NextHandlers]_vars

----------------------------------------------------------------------------
(* Encryption: the encryption command, save_store with I/O errors, load_store *)

HandleEncryption(flag, key) ==
    /\ call' = [op |-> "handle_encryption", args |-> <<flag>>]
    /\ LET r == handle_encryption(config, flag, key)
       IN ret' = r.ret /\ config' = r.config
    /\ UNCHANGED <<book, notebook, heap, id_iter, last_id, disk, hist>>

\* load_store has not ended the process
Running == ~(call.op = "load_store" /\ ret # "data")

NextCrypt ==
    \/ Running /\ \E name \in {NameA, NameB} : NewRecord(name)
    \/ Running /\ \E flag \in {<<"O", "n">>, <<"o", "f", "f">>, <<"o", "k">>} :
                  \E key \in {"k1", "k2"} : HandleEncryption(flag, key)
    \/ Running /\ \E fault \in {"None", "config", "open", "write"} : SaveStoreFault(fault)
    \/ LoadStore

SpecCrypt == InitStarted /\ [][NextCrypt]_vars

\* C30: after any save_store call, failed or not, load_store can read the data
\* file on disk with the encryption key that is in the config file on disk.
C30_FilesConsistent ==
    call.op = "save_store" => load_store_reads(disk, config) = "None"

====
